---- MODULE Spec2Model ----
(***************************************************************************)
(* Financial document analyzer: the extraction of structured data points   *)
(* from an analysis report (AnalysisRepository and UserService), and the   *)
(* persistence workflow around it (create_analysis_result,                 *)
(* AnalysisService.analyze_document).                                      *)
(*                                                                         *)
(* A text (str) is a sequence of tokens.  A token is a whitespace-free     *)
(* word of the vocabulary below (s), repeated k times (k > 1 only for runs *)
(* of plain prose), with an index i that tells the lines of a repeated     *)
(* line apart ("itemA", "itemB", ...); the token NL is a line end.         *)
(* Regular expressions and substring tests are evaluated token by token    *)
(* from the attribute tables of the vocabulary.                            *)
(***************************************************************************)
EXTENDS Integers, Sequences, FiniteSets, Bags, TLC

\* ------------------------------------------------------------------ bounds
MaxLines == 2        \* lines of an input text with figures
MaxRep == 6          \* repetitions of a repeated line
ProseWords == 250    \* words in a paragraph of plain prose
LongWords == 29      \* words of prose in an over-long line
MaxSeed == 1         \* hash seeds 0..MaxSeed of a Python process
MaxCalls == 2        \* calls of the extraction on one text
MaxTime == 3        \* seconds the clock of the rate limiter runs
MaxAttempts == 4    \* calls of is_allowed
MaxRequests == 2     \* analysis requests for the document
MaxSectionLines == 3 \* lines of a report made of headers, bullets and numbered items
MaxBullets == 1      \* bullets of a section of a report of five sections
MaxKeywordLines == 4 \* lines of a report made of lines with keywords
MaxStored == 2       \* analyses of the document when delete_document is called
MaxDeletes == 2      \* calls of delete_document

\* ------------------------------------------------------- program constants
BASE_CONFIDENCE == 850   \* confidence_score=0.85, in thousandths
WORD_LIMIT == 200        \* len(words) > 200
MAX_ITEMS == 5           \* len(data_points[...]) < 5, [:5]
ENTRY_CHARS == 150       \* content[:150]
MIN_LINE_CHARS == 5      \* len(line) < 5
BULLET_LINE_CHARS == 15  \* len(line) > 15
CONTENT_CHARS == 10      \* len(content) > 10

\* -------------------------------------------------------------- vocabulary
W(s) == [s |-> s, k |-> 1, i |-> 0]
Run(s, k) == [s |-> s, k |-> k, i |-> 0]
Item(j) == [s |-> "item", k |-> 1, i |-> j]

\* number of characters of a vocabulary word (len)
Chars(s) ==
  CASE s \in {"-", "5"} -> 1
    [] s \in {"1:", "to", "in", "of", "$,"} -> 2
    [] s \in {"...", "KEY", "Key", "12%", "was", "200", "and"} -> 3
    [] s \in {"Risk", "grew", "were", "cash", "debt", "$40M"} -> 4
    [] s \in {"Total", "Sales", "lorem", "$500M", "$600M", "chain", "item"} -> 5
    [] s \in {"Risks:", "supply", "growth", "delays", "market", "words]"} -> 6
    [] s \in {"METRICS", "revenue", "Revenue", "million", "overall"} -> 7
    [] s \in {"Revenue:", "Factors:"} -> 8
    [] s \in {"Insights:", "FINANCIAL", "Financial", "Findings:", "expansion"} -> 9
    [] s = "[truncated" -> 10
    [] s = "Highlights:" -> 11
    [] s = "Opportunities:" -> 14
    [] s = "\n" -> 1

\* the word in lower case (str.lower)
Lower(s) ==
  CASE s = "Total" -> "total"
    [] s = "Insights:" -> "insights:"
    [] s \in {"Key", "KEY"} -> "key"
    [] s = "Risks:" -> "risks:"
    [] s = "Risk" -> "risk"
    [] s = "Factors:" -> "factors:"
    [] s = "Opportunities:" -> "opportunities:"
    [] s \in {"FINANCIAL", "Financial"} -> "financial"
    [] s = "Findings:" -> "findings:"
    [] s = "Highlights:" -> "highlights:"
    [] s = "METRICS" -> "metrics"
    [] s \in {"Revenue", "revenue"} -> "revenue"
    [] s = "Revenue:" -> "revenue:"
    [] s = "Sales" -> "sales"
    [] s = "$500M" -> "$500m"
    [] s = "$600M" -> "$600m"
    [] s = "$40M" -> "$40m"
    [] OTHER -> s

\* the keywords of the code's keyword lists that are substrings of the word
\* in lower case ('up' is a substring of "supply")
Keys(s) ==
  CASE s \in {"Revenue:", "Revenue", "revenue"} -> {"revenue"}
    [] s = "Sales" -> {"sales"}
    [] s \in {"Risk", "Risks:"} -> {"risk"}
    [] s = "supply" -> {"up"}
    [] s = "growth" -> {"growth"}
    [] s = "expansion" -> {"expansion"}
    [] s = "cash" -> {"cash"}
    [] s = "debt" -> {"debt"}
    [] s = "million" -> {"million"}
    [] s = "Highlights:" -> {"highlight"}
    [] OTHER -> {}

\* words that hold a decimal digit (char.isdigit)
DigitWords == {"5", "1:", "12%", "200", "$500M", "$600M", "$40M"}

\* the marker appended by the 200-word cap: "..." is glued to the last kept
\* word, the other four are words of their own
TruncationMarker == <<W("..."), W("[truncated"), W("to"), W("200"), W("words]")>>

\* ------------------------------------------------------------- text basics
NL == [s |-> "\n", k |-> 1, i |-> 0]

Min(a, b) == IF a <= b THEN a ELSE b
Max(a, b) == IF a >= b THEN a ELSE b

\* xs[lo..hi] folded from the left with F: F(...F(F(acc, xs[lo]), xs[lo+1])..., xs[hi]);
\* the left half is evaluated (left = left) before the right half starts
RECURSIVE Fold(_, _, _, _, _)
Fold(F(_, _), acc, xs, lo, hi) ==
  IF lo > hi THEN acc
  ELSE IF lo = hi THEN F(acc, xs[lo])
  ELSE LET left == Fold(F, acc, xs, lo, (lo + hi) \div 2)
       IN IF left = left THEN Fold(F, left, xs, (lo + hi) \div 2 + 1, hi) ELSE acc

\* n[1] + ... + n[j] of positive numbers
SumTo(n, j) == BagCardinality([q \in 1..j |-> n[q]])

\* a text (str) is its tokens in order, the lines separated by NL:
\* '\n'.join(lines)
JoinLine(acc, line) == acc \o <<NL>> \o line
Text(lines) == IF lines = <<>> THEN <<>> ELSE Fold(JoinLine, lines[1], lines, 2, Len(lines))

\* summary_text.split(): the words of the text, in order
split(ts) == SelectSeq(ts, LAMBDA t : t # NL)

WordCount(ws) == SumTo([q \in 1..Len(ws) |-> ws[q].k], Len(ws))

\* words[:n]; a run of prose is cut inside
TakeWords(ws, n) ==
  LET before(j) == SumTo([q \in 1..Len(ws) |-> ws[q].k], j - 1)
      kept == {j \in 1..Len(ws) : before(j) < n}
  IN [j \in 1..Cardinality(kept) |-> [ws[j] EXCEPT !.k = Min(@, n - before(j))]]

\* s.split('\n') of a str
SplitLines(ts) ==
  LET nls == {j \in 1..Len(ts) : ts[j] = NL}
      \* position of the q-th NL; 0 and Len + 1 bracket the text
      at(q) == IF q = 0 THEN 0
               ELSE IF q > Cardinality(nls) THEN Len(ts) + 1
               ELSE CHOOSE j \in nls : Cardinality({r \in nls : r < j}) = q - 1
  IN [q \in 1..(Cardinality(nls) + 1) |-> SubSeq(ts, at(q - 1) + 1, at(q) - 1)]

TokChars(t) == t.k * Chars(t.s) + (t.k - 1)

\* len(line.strip()): words are separated by one space, "..." is glued
LineChars(line) ==
  IF line = <<>> THEN 0
  ELSE SumTo([q \in 1..Len(line) |-> TokChars(line[q])], Len(line)) + (Len(line) - 1)
       - Cardinality({j \in 2..Len(line) : line[j].s = "..."})

\* phrase (lower-case words) occurs in the token sequence at position j
PhraseAt(ts, j, phrase) ==
  /\ j + Len(phrase) - 1 <= Len(ts)
  /\ \A q \in 1..Len(phrase) : ts[j + q - 1].k = 1 /\ Lower(ts[j + q - 1].s) = phrase[q]

\* phrase in s.lower()
Contains(ts, phrase) == \E j \in 1..Len(ts) : PhraseAt(ts, j, phrase)

\* s.lower().find(phrase): 0 stands for -1
Find(ts, phrase) ==
  IF Contains(ts, phrase)
  THEN CHOOSE j \in 1..Len(ts) : PhraseAt(ts, j, phrase) /\ \A q \in 1..(j - 1) : ~PhraseAt(ts, q, phrase)
  ELSE 0

\* line.startswith(words), case-sensitive
StartsWith(line, words) ==
  /\ Len(words) <= Len(line)
  /\ \A q \in 1..Len(words) : line[q].k = 1 /\ line[q].s = words[q]

\* offset of token j in the line
Start(line, j) ==
  IF j = 1 THEN 0
  ELSE LineChars(SubSeq(line, 1, j - 1)) + (IF line[j].s = "..." THEN 0 ELSE 1)

\* how many whole words of token t fit into avail characters
WholeWords(t, avail) == IF avail < 0 THEN 0 ELSE Min(t.k, (avail + 1) \div (Chars(t.s) + 1))

\* token t cut to avail characters: kw whole words, then the first
\* characters of the next word
CutToken(t, avail, kw) ==
  [w |-> IF kw > 0 THEN <<[t EXCEPT !.k = kw]>> ELSE <<>>,
   part |-> IF avail - kw * (Chars(t.s) + 1) > 0
            THEN <<t.s, avail - kw * (Chars(t.s) + 1)>>
            ELSE <<>>]

\* line[:cap] for a line of more than cap characters whose first m tokens fit
CutAfter(line, cap, m) ==
  [w |-> SubSeq(line, 1, m)
         \o CutToken(line[m + 1], cap - Start(line, m + 1),
                     WholeWords(line[m + 1], cap - Start(line, m + 1))).w,
   part |-> CutToken(line[m + 1], cap - Start(line, m + 1),
                     WholeWords(line[m + 1], cap - Start(line, m + 1))).part,
   len |-> cap]

\* an entry that keeps the whole content (no [:cap])
EntryUncut(content, cap) == [w |-> content, part |-> <<>>, len |-> LineChars(content)]

\* an entry of a list, content[:cap]: the whole words w, the cut word part
\* and the number of characters len
Entry(content, cap) ==
  IF LineChars(content) <= cap
  THEN [w |-> content, part |-> <<>>, len |-> LineChars(content)]
  ELSE CutAfter(content, cap,
                Cardinality({j \in 1..Len(content) : Start(content, j) + TokChars(content[j]) <= cap}))

\* ------------------------------------------------------ regular expressions
\* A pattern is label .*? [mid .*?] (value) [\s* after], matched with
\* re.IGNORECASE and without re.DOTALL: label, mid and value lie on one line.
\*   labels: the alternatives of the label group, in order (<<>>: no label)
\*   mid:    keywords of a second group between label and value ({}: none)
\*   value:  "dollar"  (\$[\d,]+\.?\d*[BMK]?)
\*           "scaled"  (\d+(?:,\d{3})*(?:\.\d{2})?)\s*(?:million|billion|thousand|M|B|K)
\*           "percent" (\d+(?:\.\d+)?%)
\*           "number%" (\d+(?:\.\d{2})?)\s*%
\*   after:  keywords that must follow the value after \s* ({}: none)
Pat(labels, value) == [labels |-> labels, mid |-> {}, value |-> value, after |-> {}]

\* words matched by \$[\d,]+\.?\d*[BMK]? ("$," has no digit: [\d,]+ takes the comma)
DollarWords == {"$500M", "$600M", "$40M", "$,"}

\* words that start, case-insensitively, with million|billion|thousand|M|B|K
ScaleStartWords == {"million", "market", "METRICS", "KEY", "Key"}

\* index of the next word after b, across line ends (\s*); 0 if none
NextWord(ts, b) ==
  IF \E c \in (b + 1)..Len(ts) : ts[c] # NL
  THEN CHOOSE c \in (b + 1)..Len(ts) : ts[c] # NL /\ \A q \in (b + 1)..(c - 1) : ts[q] = NL
  ELSE 0

\* the text captured by the value group at token b, "" if it does not match
Capture(ts, b, value) ==
  LET s == ts[b].s
      n == NextWord(ts, b)
      dotted == b < Len(ts) /\ ts[b + 1].s = "..."
  IN CASE value = "dollar" ->
            IF s \notin DollarWords THEN ""
            ELSE IF s = "$," /\ dotted THEN "$,." ELSE s
       [] value = "scaled" ->
            IF s = "$500M" THEN "500"
            ELSE IF s = "$600M" THEN "600"
            ELSE IF s = "$40M" THEN "40"
            ELSE IF s \in {"5", "200"} /\ ~dotted /\ n > 0 /\ ts[n].s \in ScaleStartWords THEN s
            ELSE ""
       [] value = "percent" -> IF s = "12%" THEN "12%" ELSE ""
       [] value = "number%" -> IF s = "12%" THEN "12" ELSE ""

\* the keyword (a phrase of keywords) is a substring of the text at token a
LabelAt(ts, a, phrase) ==
  /\ a + Len(phrase) - 1 <= Len(ts)
  /\ \A q \in 1..Len(phrase) : ts[a + q - 1].k = 1 /\ phrase[q] \in Keys(ts[a + q - 1].s)

SameLine(ts, a, b) == \A q \in a..b : ts[q] # NL

\* the value group matches at b and what must follow it follows
ValueAt(ts, b, pat) ==
  /\ Capture(ts, b, pat.value) # ""
  /\ pat.after # {} =>
       LET n == NextWord(ts, b) IN n > 0 /\ Keys(ts[n].s) \cap pat.after # {}

\* the least element of a non-empty set of numbers
Least(S) == CHOOSE x \in S : \A y \in S : x <= y
LeastOr(S, none) == IF S = {} THEN none ELSE Least(S)

\* the first entry above 0 of a function on 1..n, 0 if it has none
FirstPositive(f) == LeastOr({f[q] : q \in {r \in DOMAIN f : f[r] > 0 /\ \A p \in 1..(r - 1) : f[p] = 0}}, 0)

\* where the value may start: after the first keyword of the second group
AfterMid(ts, e, pat) ==
  IF pat.mid = {} THEN e
  ELSE 1 + LeastOr({m \in e..Len(ts) : SameLine(ts, e, m) /\ Keys(ts[m].s) \cap pat.mid # {}}, Len(ts))

\* the first value the lazy .*? reaches from token e on: 0 if none on the line
ValueFrom(ts, e, pat) ==
  LeastOr({b \in AfterMid(ts, e, pat)..Len(ts) : SameLine(ts, e, b) /\ ValueAt(ts, b, pat)}, 0)

\* the token of the value of a match that starts at token a, 0 if none: the
\* alternatives of the label group are tried in order
MatchAt(ts, a, pat) ==
  IF ts[a] = NL THEN 0
  ELSE IF pat.labels = <<>> THEN (IF ValueAt(ts, a, pat) THEN a ELSE 0)
  ELSE FirstPositive([q \in 1..Len(pat.labels) |->
                        IF LabelAt(ts, a, pat.labels[q])
                        THEN ValueFrom(ts, a + Len(pat.labels[q]), pat)
                        ELSE 0])

\* the capture at token b, "" for b = 0
CaptureAt(ts, b, value) == IF b = 0 THEN "" ELSE Capture(ts, b, value)

\* re.findall(pattern, text, re.IGNORECASE)[0], "" when findall is empty
FirstMatch(ts, pat) ==
  CaptureAt(ts, FirstPositive([a \in 1..Len(ts) |-> MatchAt(ts, a, pat)]), pat.value)

\* the first and the last entry of a sequence of captures that is not ""
FirstCapture(caps) ==
  IF \A v \in 1..Len(caps) : caps[v] = "" THEN ""
  ELSE caps[Least({v \in 1..Len(caps) : caps[v] # ""})]
LastCapture(caps) ==
  IF \A v \in 1..Len(caps) : caps[v] = "" THEN ""
  ELSE caps[CHOOSE v \in 1..Len(caps) : caps[v] # "" /\ \A q \in (v + 1)..Len(caps) : caps[q] = ""]

\* the loop over the variants without its break: the last variant that
\* matches overwrites the earlier ones
LastVariant(ts, variants) ==
  LastCapture([v \in 1..Len(variants) |-> FirstMatch(ts, variants[v])])

\* for pattern in patterns: matches = findall(...); if matches: take, break
FirstVariant(ts, variants) ==
  FirstCapture([v \in 1..Len(variants) |-> FirstMatch(ts, variants[v])])

\* the entries of a table of captures that are not ""
Found(vals) == [n \in {m \in DOMAIN vals : vals[m] # ""} |-> vals[n]]

\* the metrics a pattern table yields on the text
MatchMetrics(ts, patterns) ==
  Found([n \in DOMAIN patterns |-> FirstVariant(ts, patterns[n])])

\* AnalysisRepository: financial_patterns
financial_patterns ==
  [revenue |-> <<Pat(<<(<<"revenue">>), (<<"sales">>), (<<"total", "revenue">>)>>, "dollar"),
                 Pat(<<(<<"revenue">>), (<<"sales">>)>>, "scaled")>>,
   operating_income |->
               <<Pat(<<(<<"operating", "income">>), (<<"operating", "profit">>), (<<"ebit">>)>>, "dollar"),
                 Pat(<<(<<"operating", "income">>), (<<"operating", "profit">>)>>, "scaled")>>,
   net_income |->
               <<Pat(<<(<<"net", "income">>), (<<"net", "profit">>), (<<"net", "earnings">>)>>, "dollar"),
                 Pat(<<(<<"net", "income">>), (<<"net", "profit">>)>>, "scaled")>>,
   cash |->    <<Pat(<<(<<"cash">>), (<<"cash", "equivalents">>)>>, "dollar"),
                 Pat(<<(<<"cash">>), (<<"cash", "equivalents">>)>>, "scaled")>>]

\* ------------------------------------- AnalysisRepository: the extraction
ListKeys == <<"insights", "key_findings", "financial_highlights", "risks", "opportunities">>

\* data_points as created at the start of a call
EmptyDataPoints ==
  [metrics |-> <<>>, insights |-> <<>>, key_findings |-> <<>>,
   financial_highlights |-> <<>>, risks |-> <<>>, opportunities |-> <<>>]

\* the record returned by the except branch
EmptyResult ==
  [metrics |-> <<>>, insights |-> <<>>, key_findings |-> <<>>,
   financial_highlights |-> <<>>, risks |-> <<>>, opportunities |-> <<>>,
   extraction_quality_score |-> 0]

\* an except branch that logs and raises again
ExceptReraise(dp) == [result |-> EmptyResult, by |-> "propagated"]

\* an except branch that returns what was collected so far
ExceptPartial(dp) ==
  [result |-> [metrics |-> dp.metrics, insights |-> dp.insights, key_findings |-> dp.key_findings,
               financial_highlights |-> dp.financial_highlights, risks |-> dp.risks,
               opportunities |-> dp.opportunities, extraction_quality_score |-> 0],
   by |-> "outer"]

\* except Exception as e: the handler of extract_financial_data_points, which
\* returns the all-empty record whatever data_points holds
Except(dp) == [result |-> EmptyResult, by |-> "outer"]

\* the 200-word cap: ' '.join(words[:200]) + "... [truncated to 200 words]"
Truncate(text) ==
  IF WordCount(split(text)) > WORD_LIMIT
  THEN TakeWords(split(text), WORD_LIMIT) \o TruncationMarker
  ELSE text

\* headers of the section-aware pass, tested in this order on line.lower()
SectionHeader ==
  [insights |-> <<"total", "insights:">>, key_findings |-> <<"key", "findings:">>,
   financial_highlights |-> <<"financial", "highlights:">>,
   risks |-> <<"risk", "factors:">>, opportunities |-> <<"opportunities:">>]

\* the section whose header the line holds, "none" if it holds none
HeaderOf(line) ==
  IF \E q \in 1..Len(ListKeys) : Contains(line, SectionHeader[ListKeys[q]])
  THEN ListKeys[CHOOSE q \in 1..Len(ListKeys) :
                  /\ Contains(line, SectionHeader[ListKeys[q]])
                  /\ \A r \in 1..(q - 1) : ~Contains(line, SectionHeader[ListKeys[r]])]
  ELSE "none"

\* lines that leave the current section
IsClear(line) ==
  \/ StartsWith(line, <<"INVESTMENT", "RECOMMENDATION">>)
  \/ StartsWith(line, <<"KEY", "FINANCIAL", "METRICS">>)
  \/ StartsWith(line, <<"GROWTH", "&", "CHANGES">>)

\* line.startswith('-') or line.startswith(bullet)
IsBullet(line) == line # <<>> /\ line[1].s = "-"

HasDigit(line) == \E j \in 1..Len(line) : line[j].s \in DigitWords

\* an iteration that looks for a bullet before it looks for a header
ScanLineBulletFirst(st, line) ==
  IF line = <<>> \/ LineChars(line) < MIN_LINE_CHARS THEN st
  ELSE IF IsBullet(line) /\ LineChars(line) > BULLET_LINE_CHARS
       THEN IF /\ LineChars(Tail(line)) > CONTENT_CHARS
               /\ st.cur # "none"
               /\ Len(st.dp[st.cur]) < MAX_ITEMS
            THEN [st EXCEPT !.dp[st.cur] = Append(@, Entry(Tail(line), ENTRY_CHARS))]
            ELSE st
  ELSE IF HeaderOf(line) # "none" THEN [st EXCEPT !.cur = HeaderOf(line)]
  ELSE IF IsClear(line) THEN [st EXCEPT !.cur = "none"]
  ELSE st

\* one iteration of "for line in lines" on st = [cur, dp]
ScanLine(st, line) ==
  LET n == LineChars(line)
      content == Tail(line)
      cur == st.cur
  IN IF line = <<>> \/ n < MIN_LINE_CHARS THEN st
     ELSE IF HeaderOf(line) # "none" THEN [st EXCEPT !.cur = HeaderOf(line)]
     ELSE IF IsClear(line) THEN [st EXCEPT !.cur = "none"]
     ELSE IF IsBullet(line) /\ n > BULLET_LINE_CHARS
          THEN IF /\ LineChars(content) > CONTENT_CHARS
                  /\ cur # "none"
                  /\ Len(st.dp[cur]) < MAX_ITEMS
               THEN [st EXCEPT !.dp[cur] = Append(@, Entry(content, ENTRY_CHARS))]
               ELSE st
     ELSE IF IsBullet(line) /\ n > 20
          THEN IF HasDigit(content) /\ Len(st.dp.insights) < 3
               THEN [st EXCEPT !.dp.insights = Append(@, Entry(content, 100))]
               ELSE st
     ELSE st

\* the section-aware pass: lines = summary_text.split('\n'), for line in lines
SectionPass(text, dp) ==
  Fold(ScanLine, [cur |-> "none", dp |-> dp], SplitLines(text), 1, Len(SplitLines(text))).dp

\* not any(data_points[key] for key in [...])
NoFindings(dp) == \A q \in 1..Len(ListKeys) : dp[ListKeys[q]] = <<>>

\* _extract_insights_fallback: sections and their headers, in dict order
FallbackHeaders ==
  [insights |-> <<(<<"total", "insights:">>), (<<"insights:">>)>>,
   key_findings |-> <<(<<"key", "findings:">>), (<<"findings:">>)>>,
   financial_highlights |-> <<(<<"financial", "highlights:">>), (<<"highlights:">>)>>,
   risks |-> <<(<<"risk", "factors:">>), (<<"risks:">>)>>,
   opportunities |-> <<(<<"opportunities:">>)>>]

\* the headers that end a section of the fallback pass
OtherHeaders ==
  {<<"total", "insights:">>, <<"key", "findings:">>, <<"financial", "highlights:">>,
   <<"risk", "factors:">>, <<"opportunities:">>, <<"investment", "recommendation:">>}

\* words that hold a colon
ColonWords ==
  {"1:", "Risks:", "Insights:", "Revenue:", "Opportunities:", "Factors:", "Findings:", "Highlights:"}

\* summary_text[start_idx + len(header):] cut at the next header
SectionContent(ts, header) ==
  LET rest == SubSeq(ts, Find(ts, header) + Len(header), Len(ts))
      ends == {Find(rest, h) : h \in OtherHeaders} \ {0}
      next == IF ends = {} THEN Len(rest) + 1
              ELSE CHOOSE e \in ends : \A f \in ends : e <= f
  IN SubSeq(rest, 1, next - 1)

\* a line of a section taken whatever its length
FallbackLineAnyLength(list, line) ==
  IF IsBullet(line) /\ Len(list) < MAX_ITEMS
  THEN Append(list, Entry(Tail(line), ENTRY_CHARS))
  ELSE list

\* one line of a section of the fallback pass
FallbackLine(list, line) ==
  IF IsBullet(line) /\ LineChars(line) > BULLET_LINE_CHARS
  THEN IF LineChars(Tail(line)) > CONTENT_CHARS /\ Len(list) < MAX_ITEMS
       THEN Append(list, Entry(Tail(line), ENTRY_CHARS))
       ELSE list
  ELSE IF /\ Len(line) > 1
          /\ line[1].s \in {"Risk", "Opportunity"}
          /\ \E j \in 1..Len(line) : line[j].s \in ColonWords
       THEN LET c == CHOOSE j \in 1..Len(line) :
                       line[j].s \in ColonWords /\ \A q \in 1..(j - 1) : line[q].s \notin ColonWords
                content == SubSeq(line, c + 1, Len(line))
            IN IF LineChars(content) > CONTENT_CHARS /\ Len(list) < MAX_ITEMS
               THEN Append(list, Entry(content, ENTRY_CHARS))
               ELSE list
  ELSE list

\* the fallback pass on one section: for header in section_headers
FallbackSection(text, dp, key) ==
  LET lines(header) == SplitLines(SectionContent(text, header))
      one(list, header) ==
        IF Contains(text, header)
        THEN Fold(FallbackLine, list, lines(header), 1, Len(lines(header)))
        ELSE list
  IN [dp EXCEPT ![key] = Fold(one, @, FallbackHeaders[key], 1, Len(FallbackHeaders[key]))]

\* _extract_insights_fallback through its first n sections (all of it:
\* n = Len(ListKeys)); data_points is filled in place
RECURSIVE extract_insights_fallback(_, _, _)
extract_insights_fallback(text, dp, n) ==
  IF n = 0 THEN dp
  ELSE FallbackSection(text, extract_insights_fallback(text, dp, n - 1), ListKeys[n])

\* a score whose 5 for a complete analysis asks for metrics too
RepoScoreBonusWithMetrics(dp) ==
  LET q == (IF dp.metrics # <<>> THEN 20 ELSE 0)
           + 15 * Cardinality({j \in 1..Len(ListKeys) : dp[ListKeys[j]] # <<>>})
           + (IF dp.metrics # <<>> /\ \A j \in 1..Len(ListKeys) : dp[ListKeys[j]] # <<>>
              THEN 5 ELSE 0)
  IN Min(q, 100)

\* extraction_quality_score of the repository, in hundredths
RepoScore(dp) ==
  LET q == (IF dp.metrics # <<>> THEN 20 ELSE 0)
           + (IF dp.insights # <<>> THEN 15 ELSE 0)
           + (IF dp.key_findings # <<>> THEN 15 ELSE 0)
           + (IF dp.financial_highlights # <<>> THEN 15 ELSE 0)
           + (IF dp.risks # <<>> THEN 15 ELSE 0)
           + (IF dp.opportunities # <<>> THEN 15 ELSE 0)
           + (IF \A j \in 1..Len(ListKeys) : dp[ListKeys[j]] # <<>> THEN 5 ELSE 0)
  IN Min(q, 100)

WithScore(dp, score) ==
  [metrics |-> dp.metrics, insights |-> dp.insights, key_findings |-> dp.key_findings,
   financial_highlights |-> dp.financial_highlights, risks |-> dp.risks,
   opportunities |-> dp.opportunities, extraction_quality_score |-> score]

\* data_points after the loop over financial_patterns
RepoMetrics(text) == [EmptyDataPoints EXCEPT !.metrics = MatchMetrics(text, financial_patterns)]

\* the fallback pass whatever the lists hold
RepoFallbackAlways(text, dp) == extract_insights_fallback(text, dp, Len(ListKeys))

\* if not any(...): self._extract_insights_fallback(summary_text, data_points)
RepoFallback(text, dp) ==
  IF NoFindings(dp) THEN extract_insights_fallback(text, dp, Len(ListKeys)) ELSE dp

\* data_points["extraction_quality_score"] = min(extraction_quality, 1.0)
RepoScored(dp) == WithScore(dp, RepoScore(dp))

\* the body of the try after the 200-word cap
RepoCapped(text) == RepoScored(RepoFallback(text, SectionPass(text, RepoMetrics(text))))

\* AnalysisRepository.extract_financial_data_points on a string
RepoExtract(text) == RepoCapped(Truncate(text))

\* --------------------------------------------- UserService: the extraction
LPat(labels, mid, value, after) == [labels |-> labels, mid |-> mid, value |-> value, after |-> after]

ChangeWords == {"growth", "increase", "decrease", "decline"}

\* UserService: financial_patterns
user_financial_patterns ==
  [revenue |-> financial_patterns.revenue,
   operating_income |-> financial_patterns.operating_income,
   net_income |-> financial_patterns.net_income,
   cash |-> financial_patterns.cash,
   free_cash_flow |->
               <<Pat(<<(<<"free", "cash", "flow">>), (<<"fcf">>)>>, "dollar"),
                 Pat(<<(<<"free", "cash", "flow">>), (<<"fcf">>)>>, "scaled")>>,
   operating_margin |->
               <<Pat(<<(<<"operating", "margin">>)>>, "percent"),
                 Pat(<<(<<"operating", "margin">>)>>, "number%")>>,
   net_margin |->
               <<Pat(<<(<<"net", "margin">>)>>, "percent"),
                 Pat(<<(<<"net", "margin">>)>>, "number%")>>]

\* UserService: percentage_patterns
percentage_patterns ==
  [revenue_change |->
     <<LPat(<<(<<"revenue">>), (<<"sales">>)>>, ChangeWords, "percent", {}),
       LPat(<<(<<"revenue">>), (<<"sales">>)>>, {}, "percent", ChangeWords)>>,
   income_change |->
     <<LPat(<<(<<"operating", "income">>), (<<"net", "income">>), (<<"profit">>)>>, ChangeWords, "percent", {}),
       LPat(<<(<<"operating", "income">>), (<<"net", "income">>), (<<"profit">>)>>, {}, "percent", ChangeWords)>>,
   growth_rate |->
     <<LPat(<<(<<"growth">>), (<<"yoy">>), (<<"year-over-year">>)>>, {}, "percent", {}),
       LPat(<<>>, {}, "percent", {"growth", "yoy"})>>]

\* f @@ g: the entries of f, and those of g that f lacks
Merge(f, g) ==
  [n \in (DOMAIN f) \cup (DOMAIN g) |-> IF n \in DOMAIN f THEN f[n] ELSE g[n]]

\* any(keyword in line.lower() for keyword in kws)
HasKey(line, kws) == \E j \in 1..Len(line) : Keys(line[j].s) \cap kws # {}

\* '$' in line, '%' in line
HasDollar(line) == \E j \in 1..Len(line) : line[j].s \in DollarWords
HasPercent(line) == \E j \in 1..Len(line) : line[j].s = "12%"

InsightWords == {"revenue", "profit", "growth", "margin", "cash", "debt"}
financial_keywords ==
  {"revenue", "profit", "income", "cash", "debt", "growth", "decline", "increase", "decrease", "margin"}
risk_keywords ==
  {"risk", "uncertainty", "challenge", "concern", "volatility", "decline", "decrease", "down", "fell", "dropped"}
opportunity_keywords ==
  {"opportunity", "growth", "expansion", "increase", "up", "positive", "strong", "robust", "rose", "gained"}

\* first loop: bullets into insights, key statements into key_findings
UserLine1(dp, line) ==
  LET n == LineChars(line)
      insight == Tail(line)
      a == IF /\ IsBullet(line) /\ n > 30 /\ Len(dp.insights) < 5
              /\ (HasDigit(insight) \/ HasKey(insight, InsightWords))
           THEN [dp EXCEPT !.insights = Append(@, Entry(insight, 100))]
           ELSE dp
      keyline == \/ Contains(line, <<"key", "findings:">>)
                 \/ HasKey(line, {"highlight", "important", "critical"})
  IN IF line = <<>> \/ n < 20 THEN dp
     ELSE IF /\ keyline /\ Len(a.key_findings) < 3
             /\ n > 20 /\ n < 200
             /\ (HasDollar(line) \/ HasPercent(line) \/ HasKey(line, ChangeWords))
          THEN [a EXCEPT !.key_findings = Append(@, Entry(line, 120))]
          ELSE a

\* second loop: financial highlights
UserLine2(dp, line) ==
  LET n == LineChars(line)
  IN IF /\ Len(dp.financial_highlights) < 3
        /\ HasKey(line, financial_keywords)
        /\ n > 20 /\ n < 200
        /\ (HasDollar(line) \/ HasPercent(line))
        /\ HasDigit(line)
     THEN [dp EXCEPT !.financial_highlights = Append(@, Entry(line, 120))]
     ELSE dp

\* third loop: risks, else opportunities
UserLine3(dp, line) ==
  LET n == LineChars(line)
  IN IF n > 20 /\ n < 200
     THEN IF Len(dp.risks) < 3 /\ HasKey(line, risk_keywords)
          THEN [dp EXCEPT !.risks = Append(@, Entry(line, 120))]
          ELSE IF Len(dp.opportunities) < 3 /\ HasKey(line, opportunity_keywords)
               THEN [dp EXCEPT !.opportunities = Append(@, Entry(line, 120))]
               ELSE dp
     ELSE dp

\* one of the three loops over lines = summary_text.split('\n')
KeywordLoop(text, dp, loop) ==
  LET lines == SplitLines(text)
  IN CASE loop = 1 -> Fold(UserLine1, dp, lines, 1, Len(lines))
       [] loop = 2 -> Fold(UserLine2, dp, lines, 1, Len(lines))
       [] loop = 3 -> Fold(UserLine3, dp, lines, 1, Len(lines))

\* the three loops, one after the other
KeywordPass(text, dp) == KeywordLoop(text, KeywordLoop(text, KeywordLoop(text, dp, 1), 2), 3)

\* -------------------------- UserService: _advanced_financial_extraction
\* number of characters of a keyword
KwChars(kw) ==
  CASE kw \in {"up"} -> 2
    [] kw \in {"cash", "debt", "risk"} -> 4
    [] kw \in {"sales"} -> 5
    [] kw \in {"growth"} -> 6
    [] kw \in {"revenue", "million"} -> 7
    [] kw \in {"expansion", "highlight"} -> 9
    [] OTHER -> 6

\* offset of the keyword in the word that holds it
KwOffset(s) == IF s = "supply" THEN 1 ELSE 0

\* the character offsets of the tokens of the text: Offsets(ts)[j] is where
\* token j starts, Offsets(ts)[Len(ts) + 1] is len(text)
Offsets(ts) ==
  LET sep(j) == IF j = Len(ts) \/ ts[j] = NL \/ ts[j + 1] = NL \/ ts[j + 1].s = "..."
                THEN 0 ELSE 1
      width == [j \in 1..Len(ts) |-> TokChars(ts[j]) + sep(j)]
  IN [j \in 1..(Len(ts) + 1) |-> SumTo(width, j - 1)]

\* the text a scale alternative matches at the start of a word
ScaleChars(s) == IF s = "million" THEN 7 ELSE 1

\* the text of a match of [\d,]+\.?\d*\s*(?:million|...|M|B|K) that spans two words
ScaledText(s, next) ==
  CASE s = "5" /\ next = "million" -> "5 million"
    [] s = "5" /\ next = "market" -> "5 m"
    [] s = "5" /\ next = "METRICS" -> "5 M"
    [] s = "5" -> "5 K"
    [] s = "200" -> "200 m"
    [] next = "million" -> ", million"
    [] next = "market" -> ", m"
    [] next = "METRICS" -> ", M"
    [] OTHER -> ", K"

\* the match of monetary pattern p at token j: [value, start, end], or
\* value "" when the pattern does not match there
MoneyMatch(ts, off, p, j) ==
  LET s == ts[j].s
      n == NextWord(ts, j)
      dotted == j < Len(ts) /\ ts[j + 1].s = "..."
      no == [value |-> "", start |-> 0, end |-> 0]
      suffixed == s \in {"$500M", "$600M", "$40M"}
  IN IF ts[j].k # 1 THEN no
     ELSE CASE p = 1 ->
            IF s \notin DollarWords THEN no
            ELSE IF s = "$," /\ dotted
                 THEN [value |-> "$,.", start |-> off[j], end |-> off[j] + 3]
                 ELSE [value |-> s, start |-> off[j], end |-> off[j] + Chars(s)]
       [] p = 2 ->
            IF s = "$500M" THEN [value |-> "$500", start |-> off[j], end |-> off[j] + 4]
            ELSE IF s = "$600M" THEN [value |-> "$600", start |-> off[j], end |-> off[j] + 4]
            ELSE IF s = "$40M" THEN [value |-> "$40", start |-> off[j], end |-> off[j] + 3]
            ELSE IF s = "$," /\ dotted
                 THEN [value |-> "$,.", start |-> off[j], end |-> off[j] + 3]
            ELSE IF s = "$," THEN [value |-> "$,", start |-> off[j], end |-> off[j] + 2]
            ELSE no
       [] p = 3 ->
            IF s = "$500M" THEN [value |-> "500M", start |-> off[j] + 1, end |-> off[j] + 5]
            ELSE IF s = "$600M" THEN [value |-> "600M", start |-> off[j] + 1, end |-> off[j] + 5]
            ELSE IF s = "$40M" THEN [value |-> "40M", start |-> off[j] + 1, end |-> off[j] + 4]
            ELSE IF s \in {"5", "200", "$,"} /\ ~dotted /\ n > 0 /\ ts[n].s \in ScaleStartWords
                 THEN [value |-> ScaledText(s, ts[n].s),
                       start |-> IF s = "$," THEN off[j] + 1 ELSE off[j],
                       end |-> off[n] + ScaleChars(ts[n].s)]
            ELSE no

\* any(word in context for word in kws), context = text[start-50:end+50].lower()
InContext(ts, off, m, kws) ==
  \E q \in 1..Len(ts) :
    /\ ts[q].k = 1
    /\ Keys(ts[q].s) \cap kws # {}
    /\ \E kw \in Keys(ts[q].s) \cap kws :
         /\ off[q] + KwOffset(ts[q].s) >= Max(0, m.start - 50)
         /\ off[q] + KwOffset(ts[q].s) + KwChars(kw) <= Min(off[Len(ts) + 1], m.end + 50)

\* a classification that names the metric after the keyword it looks for
MoneyClassByWord(ts, off, m) ==
  IF InContext(ts, off, m, {"revenue", "sales", "income"}) THEN "sales"
  ELSE IF InContext(ts, off, m, {"profit", "earnings", "net income"}) THEN "profit"
  ELSE IF InContext(ts, off, m, {"cash", "liquidity"}) THEN "cash"
  ELSE IF InContext(ts, off, m, {"debt", "liability", "borrowing"}) THEN "debt"
  ELSE "none"

\* the metric a monetary value is taken for
MoneyClass(ts, off, m) ==
  IF InContext(ts, off, m, {"revenue", "sales", "income"}) THEN "revenue"
  ELSE IF InContext(ts, off, m, {"profit", "earnings", "net income"}) THEN "net_income"
  ELSE IF InContext(ts, off, m, {"cash", "liquidity"}) THEN "cash"
  ELSE IF InContext(ts, off, m, {"debt", "liability", "borrowing"}) THEN "debt"
  ELSE "none"

\* the match of percentage pattern p at token j
PercentMatch(ts, off, p, j) ==
  IF p = 1 /\ ts[j].s = "12%"
  THEN [value |-> "12%", start |-> off[j], end |-> off[j] + 3]
  ELSE [value |-> "", start |-> 0, end |-> 0]

\* the metric a percentage is taken for
PercentClass(ts, off, m) ==
  IF InContext(ts, off, m, {"margin", "profitability"}) THEN "gross_margin"
  ELSE IF InContext(ts, off, m, {"growth", "increase", "decrease"}) THEN "growth_rate"
  ELSE "none"

\* for pattern in patterns: for match in finditer: the metric of the match's
\* class is set unless it is set already, so each class takes the value of
\* its first match, patterns 1..np in order and each from left to right
Assign(M(_, _, _, _), Class(_, _, _), ts, off, np, metrics) ==
  LET hits == {x \in (1..np) \X (1..Len(ts)) :
                 ts[x[2]] # NL /\ M(ts, off, x[1], x[2]).value # ""}
      classOf(x) == Class(ts, off, M(ts, off, x[1], x[2]))
      before(x, y) == x[1] < y[1] \/ (x[1] = y[1] /\ x[2] <= y[2])
      classes == {classOf(x) : x \in hits} \ {"none"}
      first(c) == CHOOSE x \in hits : classOf(x) = c /\ \A y \in hits : classOf(y) = c => before(x, y)
  IN Merge(metrics, [c \in classes |-> M(ts, off, first(c)[1], first(c)[2]).value])

AdvancedWords == {"revenue", "sales", "profit", "income", "cash", "debt", "margin", "growth", "earnings"}

\* numbers = re.findall(r'\d+(?:,\d{3})*(?:\.\d{2})?', line)
Numbers(line) == Cardinality({j \in 1..Len(line) : line[j].s \in DigitWords})

\* lines with a number and a financial word become financial highlights
AdvancedHighlight(dp, line) ==
  LET n == LineChars(line)
  IN IF /\ n > 10 /\ n < 200
        /\ HasDigit(line) /\ HasKey(line, AdvancedWords)
        /\ Numbers(line) > 0
        /\ (HasDollar(line) \/ HasPercent(line) \/ HasKey(line, {"million", "billion", "thousand"}))
     THEN [dp EXCEPT !.financial_highlights = Append(@, Entry(line, 150))]
     ELSE dp

\* lines with two numbers and a financial word become insights
AdvancedInsight(dp, line) ==
  LET n == LineChars(line)
  IN IF /\ n > 30 /\ n < 200
        /\ Numbers(line) >= 2
        /\ HasKey(line, {"revenue", "profit", "growth", "margin", "cash", "debt", "earnings", "income"})
     THEN [dp EXCEPT !.insights = Append(@, Entry(line, 150))]
     ELSE dp

\* the stages of _advanced_financial_extraction: monetary values,
\* percentages, highlight lines, insight lines
AdvancedStage(text, dp, stage) ==
  LET ts == text
      off == Offsets(ts)
      lines == SplitLines(text)
  IN CASE stage = 1 ->
            [dp EXCEPT !.metrics = Assign(MoneyMatch, MoneyClass, ts, off, 3, @)]
       [] stage = 2 ->
            [dp EXCEPT !.metrics = Assign(PercentMatch, PercentClass, ts, off, 2, @)]
       [] stage = 3 -> Fold(AdvancedHighlight, dp, lines, 1, Len(lines))
       [] stage = 4 -> Fold(AdvancedInsight, dp, lines, 1, Len(lines))

AdvancedStages == 4

\* _advanced_financial_extraction up to stage n (all of it: AdvancedStages)
RECURSIVE advanced_financial_extraction(_, _, _)
advanced_financial_extraction(text, dp, n) ==
  IF n = 0 THEN dp
  ELSE AdvancedStage(text, advanced_financial_extraction(text, dp, n - 1), n)

\* the distinct entries of a list, in first-seen order
AddNew(front, x) == IF \E j \in 1..Len(front) : front[j] = x THEN front ELSE Append(front, x)
Distinct(list) == Fold(AddNew, <<>>, list, 1, Len(list))

\* list(set(list)): the distinct entries in the iteration order of a set of
\* str, which follows the hashes of the process (PYTHONHASHSEED); the seed
\* rotates the order
Rotate(d, seed) ==
  IF d = <<>> THEN d
  ELSE SubSeq(d, (seed % Len(d)) + 1, Len(d)) \o SubSeq(d, 1, seed % Len(d))
SetList(list, seed) == Rotate(Distinct(list), seed)

\* list[:5] and, with a cap of one entry, list[:1]
Keep(list) == SubSeq(list, 1, Min(MAX_ITEMS, Len(list)))
KeepOne(list) == SubSeq(list, 1, Min(1, Len(list)))

\* the clean-up with a cap of one entry per list
CleanUpOne(dp, seed) ==
  [metrics |-> dp.metrics,
   insights |-> KeepOne(SetList(dp.insights, seed)),
   key_findings |-> KeepOne(SetList(dp.key_findings, seed)),
   financial_highlights |-> KeepOne(SetList(dp.financial_highlights, seed)),
   risks |-> KeepOne(SetList(dp.risks, seed)),
   opportunities |-> KeepOne(SetList(dp.opportunities, seed))]

\* data_points[key] = list(set(data_points[key]))[:5] for the five lists
CleanUp(dp, seed) ==
  [metrics |-> dp.metrics,
   insights |-> Keep(SetList(dp.insights, seed)),
   key_findings |-> Keep(SetList(dp.key_findings, seed)),
   financial_highlights |-> Keep(SetList(dp.financial_highlights, seed)),
   risks |-> Keep(SetList(dp.risks, seed)),
   opportunities |-> Keep(SetList(dp.opportunities, seed))]

\* a score with a weight of 0.6 for the metrics and without the clamp
UserScoreUnclamped(dp) ==
  (IF dp.metrics # <<>> THEN 60 ELSE 0)
  + (IF dp.insights # <<>> THEN 20 ELSE 0)
  + (IF dp.financial_highlights # <<>> THEN 20 ELSE 0)
  + (IF dp.risks # <<>> \/ dp.opportunities # <<>> THEN 10 ELSE 0)

\* a score that counts the key findings with the insights
UserScoreWithFindings(dp) ==
  LET q == (IF dp.metrics # <<>> THEN 50 ELSE 0)
           + (IF dp.insights # <<>> \/ dp.key_findings # <<>> THEN 20 ELSE 0)
           + (IF dp.financial_highlights # <<>> THEN 20 ELSE 0)
           + (IF dp.risks # <<>> \/ dp.opportunities # <<>> THEN 10 ELSE 0)
  IN Min(q, 100)

\* extraction_quality_score of UserService, in hundredths
UserScore(dp) ==
  LET q == (IF dp.metrics # <<>> THEN 50 ELSE 0)
           + (IF dp.insights # <<>> THEN 20 ELSE 0)
           + (IF dp.financial_highlights # <<>> THEN 20 ELSE 0)
           + (IF dp.risks # <<>> \/ dp.opportunities # <<>> THEN 10 ELSE 0)
  IN Min(q, 100)

\* the metrics of the two pattern tables of UserService
UserMetrics(text) ==
  Merge(MatchMetrics(text, user_financial_patterns),
        MatchMetrics(text, percentage_patterns))

\* data_points after the loops over the two pattern tables
UserStart(text) == [EmptyDataPoints EXCEPT !.metrics = UserMetrics(text)]

\* if len(data_points["metrics"]) < 5
NeedsAdvanced(dp) == Cardinality(DOMAIN dp.metrics) < 5

\* if len(data_points["metrics"]) < 5: data_points = self._advanced_financial_extraction(...)
UserAdvanced(text, dp) ==
  IF NeedsAdvanced(dp) THEN advanced_financial_extraction(text, dp, AdvancedStages) ELSE dp

\* data_points["extraction_quality_score"] = min(extraction_quality, 1.0)
UserScored(dp) == WithScore(dp, UserScore(dp))

\* the body of the try after the 200-word cap, in a process with this hash seed
UserCapped(text, seed) ==
  UserScored(CleanUp(UserAdvanced(text, KeywordPass(text, UserStart(text))), seed))

\* UserService.extract_financial_data_points on a string
UserExtract(text, seed) == UserCapped(Truncate(text), seed)

\* ------------------------------------------------------------------ inputs
Words(ws) == [j \in 1..Len(ws) |-> W(ws[j])]

\* lines of a report
HeaderKeys == {"insights", "risks", "opportunities"}
HeaderLine(key) ==
  CASE key = "insights" -> Words(<<"Total", "Insights:">>)
    [] key = "risks" -> Words(<<"Risks:">>)
    [] key = "opportunities" -> Words(<<"Opportunities:">>)
ClearLine == Words(<<"KEY", "FINANCIAL", "METRICS">>)
Bullet(j) == <<W("-"), W("market"), W("expansion"), Item(j)>>
Bullets(n) == [j \in 1..n |-> Bullet(j)]
LongBullet == <<W("-"), Run("lorem", LongWords)>>
RiskLine == Words(<<"Risk", "1:", "supply", "chain", "delays">>)
Prose(n) == <<Run("lorem", n)>>
Highlight(j) == <<W("Sales"), W("grew"), W("to"), W("$600M"), Item(j)>>
Highlights(n) == [j \in 1..n |-> Highlight(j)]

\* lines with figures
FigureLines ==
  {Words(<<"Revenue:", "$500M">>),
   Words(<<"Sales", "grew", "to", "$600M">>),
   Words(<<"$500M", "in", "revenue">>),
   Words(<<"Sales", "were", "$,", "overall">>),
   Words(<<"Revenue", "was", "5">>),
   Words(<<"market", "expansion">>),
   Words(<<"Revenue", "growth", "of", "12%", "to", "$500M", "overall">>),
   Words(<<"cash", "and", "debt", "$40M">>),
   <<W("Revenue:"), W("$500M"), Run("lorem", LongWords)>>}

\* reports with sections: a header or not, bullets or not, prose or not
Heads == {<<>>, <<ClearLine>>} \cup {<<HeaderLine(key)>> : key \in HeaderKeys}
BulletBodies == {Bullets(n) : n \in 1..MaxRep} \cup {<<LongBullet>> \o Bullets(n) : n \in 0..MaxRep}
Bodies == {<<>>, <<RiskLine>>} \cup BulletBodies
Tails == {<<>>, <<Prose(ProseWords)>>}
SectionTexts == {Text(h \o b \o t) : <<h, b, t>> \in Heads \X Bodies \X Tails}

\* a figure written as a plain number and a scale word, and a figure of a
\* metric the pattern tables do not name
ExtraLines ==
  {Words(<<"Revenue", "was", "5", "million">>),
   Words(<<"debt", "was", "$40M">>)}

\* lines that follow a line with figures
FollowLines ==
  {Words(<<"Sales", "grew", "to", "$600M">>),
   Words(<<"$500M", "in", "revenue">>),
   Words(<<"market", "expansion">>)}

\* reports with figures: a line with figures and the lines that follow it,
\* up to MaxLines lines; a line before or after a paragraph; repeated lines
FigureTexts ==
  {Text(<<l>> \o f) : <<l, f>> \in FigureLines \X UNION {[1..n -> FollowLines] : n \in 0..(MaxLines - 1)}}
  \cup {Text(<<l, Prose(ProseWords)>>) : l \in FigureLines}
  \cup {Text(<<Prose(ProseWords), l>>) : l \in FigureLines}
  \cup {Text(Highlights(n)) : n \in 1..MaxRep}
  \cup {Text(<<l>>) : l \in ExtraLines}

\* the lines of reports with sections: headers in the long and in the short
\* form, a line that leaves the section, bullets, a bullet of 14 characters,
\* a bullet that holds a header, a header with a bullet on its line, numbered
\* items of 17 and of 6 characters; the line at position j carries the item
\* number j
SectionKinds ==
  {"total_insights", "risk_factors", "risks", "clear", "bullet", "short_bullet",
   "header_bullet", "inline_bullet", "numbered", "short_numbered"}

SectionLine(kind, j) ==
  CASE kind = "total_insights" -> Words(<<"Total", "Insights:">>)
    [] kind = "risk_factors" -> Words(<<"Risk", "Factors:">>)
    [] kind = "risks" -> Words(<<"Risks:">>)
    [] kind = "clear" -> ClearLine
    [] kind = "bullet" -> Bullet(j)
    [] kind = "short_bullet" -> <<W("-"), W("market"), Item(j)>>
    [] kind = "header_bullet" -> <<W("-"), W("Risk"), W("Factors:"), W("market"), W("expansion"), Item(j)>>
    [] kind = "inline_bullet" -> <<W("Insights:"), W("-"), W("market"), W("expansion"), Item(j)>>
    [] kind = "numbered" -> <<W("Risk"), W("1:"), W("supply"), W("chain"), Item(j)>>
    [] kind = "short_numbered" -> Words(<<"Risk", "1:", "delays">>)

\* the header of a section in the long form, as the reports write it
LongHeader(key) ==
  CASE key = "insights" -> Words(<<"Total", "Insights:">>)
    [] key = "key_findings" -> Words(<<"Key", "Findings:">>)
    [] key = "financial_highlights" -> Words(<<"Financial", "Highlights:">>)
    [] key = "risks" -> Words(<<"Risk", "Factors:">>)
    [] key = "opportunities" -> Words(<<"Opportunities:">>)

\* the lines of a section with n bullets; none when n = 0
SectionOf(key, n) == IF n = 0 THEN <<>> ELSE <<LongHeader(key)>> \o Bullets(n)

\* reports of up to five sections of up to MaxBullets bullets each, with or
\* without a line that names a figure
FullReports ==
  {Text(m \o SectionOf("insights", n[1]) \o SectionOf("key_findings", n[2])
          \o SectionOf("financial_highlights", n[3]) \o SectionOf("risks", n[4])
          \o SectionOf("opportunities", n[5])) :
     <<m, n>> \in {<<>>, <<Words(<<"Revenue:", "$500M">>)>>} \X [1..5 -> 0..MaxBullets]}

\* the lines of reports with keywords: a line with a risk keyword and an
\* opportunity keyword ('up' in "supply"), a line with an opportunity
\* keyword, a figure without a currency or percent sign, a key statement
KeywordKinds == {"risk_up", "expansion", "million", "finding"}

KeywordLine(kind, j) ==
  CASE kind = "risk_up" -> <<W("Risk"), W("1:"), W("supply"), W("chain"), Item(j)>>
    [] kind = "expansion" -> Bullet(j)
    [] kind = "million" -> Words(<<"Revenue", "was", "5", "million">>)
    [] kind = "finding" -> Words(<<"Key", "Findings:", "12%", "of", "market", "overall">>)

KeywordReports ==
  {Text([j \in 1..Len(kinds) |-> KeywordLine(kinds[j], j)]) :
     kinds \in UNION {[1..n -> KeywordKinds] : n \in 1..MaxKeywordLines}}

SectionReports ==
  {Text([j \in 1..Len(kinds) |-> SectionLine(kinds[j], j)]) :
     kinds \in UNION {[1..n -> SectionKinds] : n \in 1..MaxSectionLines}}

\* the argument of a call: a str, or an object that is not a str
NoString == [str |-> FALSE, text |-> <<>>]
Inputs == {[str |-> TRUE, text |-> t] : t \in SectionTexts \cup FigureTexts} \cup {NoString}

Seeds == 0..MaxSeed

\* the hash seeds a process may run under: no step of AnalysisRepository
\* reads a hash, so its processes are told apart by proc alone
ProcessSeeds(class) == IF class = "user" THEN Seeds ELSE {0}

\* what run_financial_analysis may answer, as str(response)
Reports ==
  {<<>>,
   Text(<<Words(<<"market", "expansion">>)>>),
   Text(<<Prose(ProseWords)>>),
   Text(<<Prose(WORD_LIMIT)>>),
   Text(<<Words(<<"Revenue:", "$500M">>)>>),
   Text(<<Words(<<"Sales", "were", "$,", "overall">>)>>),
   Text(<<HeaderLine("opportunities")>> \o Bullets(2)),
   Text(<<HeaderLine("opportunities")>> \o Bullets(MaxRep) \o <<Prose(ProseWords)>>)}

Queries == {"q1", "q2"}

\* -------------------------------------------------- state of the programs
VARIABLES
  impl,          \* "repo": AnalysisRepository, "user": UserService
  input,         \* the argument summary_text of the call
  seed,          \* hash seed of the process the call runs in
  proc,          \* number of that process
  calls,         \* calls of extract_financial_data_points so far
  pc,            \* position of the call
  summary_text,  \* the local summary_text after the 200-word cap
  data_points,   \* the local data_points
  result,        \* the record returned to the caller
  fault,         \* where an exception was raised and which handler took it
  prev,          \* what the previous call returned
  status,        \* status of the document
  analyses,      \* the analyses collection
  analysis_ids,  \* analysis_ids of the document
  apc,           \* position of analyze_document
  query,         \* query of the request
  report,        \* str(response) of run_financial_analysis
  response,      \* what create_analysis_result returned
  existing_analysis, \* create_analysis_result found a stored analysis
  served,        \* requests so far
  analyses_completed_count, \* account.analyses_completed_count of the user
  extractions,   \* runs of extract_financial_data_points inside create_analysis_result
  outcome,       \* how the last call of create_analysis_result ended
  succeeded,     \* queries for which a call of create_analysis_result has returned
  texts,         \* the argument of each of the concurrent invocations
  frames,        \* the locals of the invocations, by the cell that holds them
  tpc,           \* position of each concurrent invocation
  returns,       \* what each concurrent invocation returned
  limit,         \* RateLimiter.is_allowed: the argument limit
  window,        \* the argument window, in seconds
  now,           \* time.time(), in whole seconds
  zset,          \* the members of the sorted set of the key, each scored by its own value
  expires,       \* when the key expires
  attempts,      \* calls of is_allowed so far
  allowed_at,    \* by second, the calls answered allowed=True
  answer,        \* what the last call returned
  confidence,    \* the argument confidence_score of create_analysis_result, in thousandths
  callers,       \* the calls of create_analysis_result that run at the same time
  documents,     \* the ids of the documents collection
  files,         \* the paths that exist on disk
  dpc,           \* position of delete_document
  reply          \* the locals of delete_document and what it answers

extraction == <<impl, input, seed, proc, calls, pc, summary_text, data_points, result, fault, prev>>
workflow == <<status, analyses, analysis_ids, apc, query, report, response, existing_analysis, served>>
creation == <<analyses_completed_count, extractions, outcome, succeeded>>
\* the variables that neither the extraction nor analyze_document touches
concurrent == <<texts, frames, tpc, returns>>
limiter == <<limit, window, now, zset, expires, attempts, allowed_at, answer>>
storage == <<confidence, callers, documents, files, dpc, reply>>
deletion == <<documents, files, dpc, reply>>
others == <<analyses_completed_count, outcome, succeeded, texts, frames, tpc, returns,
            limit, window, now, zset, expires, attempts, allowed_at, answer, storage>>
vars == <<impl, input, seed, proc, calls, pc, summary_text, data_points, result, fault, prev,
          status, analyses, analysis_ids, apc, query, report, response, existing_analysis, served,
          analyses_completed_count, extractions, outcome, succeeded, texts, frames, tpc, returns,
          limit, window, now, zset, expires, attempts, allowed_at, answer, confidence,
          callers, documents, files, dpc, reply>>

NoFault == [at |-> "none", by |-> "none"]
NoCall == [result |-> EmptyResult, seed |-> 0, proc |-> 0]
NoResponse == [id |-> 0, query |-> "none", summary |-> <<>>, output |-> EmptyResult, confidence_score |-> 0]

IdleExtraction ==
  /\ proc = 1
  /\ calls = 1
  /\ pc = "call"
  /\ summary_text = <<>>
  /\ data_points = EmptyDataPoints
  /\ result = EmptyResult
  /\ fault = NoFault
  /\ prev = NoCall

IdleWorkflow ==
  /\ status = "uploading"
  /\ analyses = <<>>
  /\ analysis_ids = <<>>
  /\ apc = "idle"
  /\ query = "none"
  /\ report = <<>>
  /\ response = NoResponse
  /\ existing_analysis = FALSE
  /\ served = 0

IdleCreation ==
  /\ analyses_completed_count = 0
  /\ extractions = 0
  /\ outcome = "none"
  /\ succeeded = {}

\* the invocations that run at the same time
Invocations == {1, 2}

\* a caller that has not called create_analysis_result
NoCaller == [at |-> "idle", query |-> "none", text |-> <<>>, id |-> 0]
IdleCallers == callers = [t \in Invocations |-> NoCaller]

\* the locals of delete_document before the call
NoReply ==
  [deleted_analyses_count |-> 0, success |-> FALSE, file_deleted |-> FALSE, status |-> "none",
   call |-> 1, documents_before |-> {}, analyses_before |-> 0]
IdleDeletion ==
  /\ documents = {"doc"}
  /\ files = {"path"}
  /\ dpc = "idle"
  /\ reply = NoReply

\* the callers of create_analysis_result pass confidence_score=0.85
IdleStorage ==
  /\ confidence = BASE_CONFIDENCE
  /\ IdleCallers
  /\ IdleDeletion

\* the locals of an invocation that has not started
NoFrame == [summary_text |-> <<>>, data_points |-> EmptyDataPoints, lines |-> <<>>,
            current_section |-> "none", i |-> 0]

IdleConcurrent ==
  /\ frames = [c \in Invocations |-> NoFrame]
  /\ tpc = [t \in Invocations |-> "call"]
  /\ returns = [t \in Invocations |-> EmptyResult]

\* no concurrent invocations
NoConcurrent ==
  /\ texts = [t \in Invocations |-> <<>>]
  /\ IdleConcurrent

NoAnswer == [allowed |-> TRUE, remaining |-> 0, reset_time |-> 0, retry_after |-> 0]

\* the key does not exist and no call was made
IdleLimiter ==
  /\ now = 0
  /\ zset = {}
  /\ expires = 0
  /\ attempts = 0
  /\ allowed_at = [t \in 0..MaxTime |-> 0]
  /\ answer = NoAnswer

NoLimiter ==
  /\ limit = 1
  /\ window = 1
  /\ IdleLimiter

\* a call of extract_financial_data_points of either class on any input
Init ==
  /\ impl \in {"repo", "user"}
  /\ input \in Inputs
  /\ seed \in ProcessSeeds(impl)
  /\ IdleExtraction
  /\ IdleWorkflow
  /\ IdleCreation
  /\ IdleStorage
  /\ NoConcurrent
  /\ NoLimiter

\* ------------------------------------ extract_financial_data_points, by step
\* words = summary_text.split() and the 200-word cap; an argument without
\* split() raises here, inside the try
Enforce200 ==
  /\ pc = "call"
  /\ IF input.str
     THEN /\ summary_text' = Truncate(input.text)
          /\ data_points' = EmptyDataPoints
          /\ pc' = "patterns"
          /\ UNCHANGED <<result, fault>>
     ELSE /\ result' = Except(data_points).result
          /\ fault' = [at |-> "split", by |-> Except(data_points).by]
          /\ pc' = "returned"
          /\ UNCHANGED <<summary_text, data_points>>
  /\ UNCHANGED <<impl, input, seed, proc, calls, prev, workflow, extractions, others>>

\* the loops over the pattern tables
MatchPatterns ==
  /\ pc = "patterns"
  /\ data_points' = IF impl = "repo" THEN RepoMetrics(summary_text) ELSE UserStart(summary_text)
  /\ pc' = "lines"
  /\ UNCHANGED <<impl, input, seed, proc, calls, summary_text, result, fault, prev, workflow, extractions, others>>

\* AnalysisRepository: the section-aware pass
ScanSections ==
  /\ pc = "lines"
  /\ impl = "repo"
  /\ data_points' = SectionPass(summary_text, data_points)
  /\ pc' = "fallback"
  /\ UNCHANGED <<impl, input, seed, proc, calls, summary_text, result, fault, prev, workflow, extractions, others>>

\* AnalysisRepository: the fallback pass, when no list has an entry
Fallback ==
  /\ pc = "fallback"
  /\ data_points' = RepoFallback(summary_text, data_points)
  /\ pc' = "score"
  /\ UNCHANGED <<impl, input, seed, proc, calls, summary_text, result, fault, prev, workflow, extractions, others>>

\* an exception inside _extract_insights_fallback after n sections: its own
\* handler logs it, and the call goes on with what data_points holds
FallbackFails(n) ==
  /\ pc = "fallback"
  /\ NoFindings(data_points)
  /\ data_points' = extract_insights_fallback(summary_text, data_points, n)
  /\ fault' = [at |-> "fallback", by |-> "inner"]
  /\ pc' = "score"
  /\ UNCHANGED <<impl, input, seed, proc, calls, summary_text, result, prev, workflow, extractions, others>>

\* UserService: the three loops over the lines
KeywordLoops ==
  /\ pc = "lines"
  /\ impl = "user"
  /\ data_points' = KeywordPass(summary_text, data_points)
  /\ pc' = "advanced"
  /\ UNCHANGED <<impl, input, seed, proc, calls, summary_text, result, fault, prev, workflow, extractions, others>>

\* UserService: the advanced pass, when fewer than 5 metrics were found
Advanced ==
  /\ pc = "advanced"
  /\ data_points' = UserAdvanced(summary_text, data_points)
  /\ pc' = "cleanup"
  /\ UNCHANGED <<impl, input, seed, proc, calls, summary_text, result, fault, prev, workflow, extractions, others>>

\* an exception inside _advanced_financial_extraction after n stages: its own
\* handler logs it and returns existing_data as it is
AdvancedFails(n) ==
  /\ pc = "advanced"
  /\ NeedsAdvanced(data_points)
  /\ data_points' = advanced_financial_extraction(summary_text, data_points, n)
  /\ fault' = [at |-> "advanced", by |-> "inner"]
  /\ pc' = "cleanup"
  /\ UNCHANGED <<impl, input, seed, proc, calls, summary_text, result, prev, workflow, extractions, others>>

\* UserService: clean up and deduplicate
CleanUpLists ==
  /\ pc = "cleanup"
  /\ data_points' = CleanUp(data_points, seed)
  /\ pc' = "score"
  /\ UNCHANGED <<impl, input, seed, proc, calls, summary_text, result, fault, prev, workflow, extractions, others>>

\* the quality score and return data_points
Score ==
  /\ pc = "score"
  /\ result' = IF impl = "repo" THEN RepoScored(data_points) ELSE UserScored(data_points)
  /\ pc' = "returned"
  /\ UNCHANGED <<impl, input, seed, proc, calls, summary_text, data_points, fault, prev, workflow, extractions, others>>

\* an exception raised by a step of the body of the try
Fails ==
  /\ pc \in {"patterns", "lines", "fallback", "advanced", "cleanup", "score"}
  /\ result' = Except(data_points).result
  /\ fault' = [at |-> pc, by |-> Except(data_points).by]
  /\ pc' = "returned"
  /\ UNCHANGED <<impl, input, seed, proc, calls, summary_text, data_points, prev, workflow, extractions, others>>

\* the same text is extracted once more in the same process
CallAgain ==
  /\ pc = "returned"
  /\ fault = NoFault
  /\ calls < MaxCalls
  /\ prev' = [result |-> result, seed |-> seed, proc |-> proc]
  /\ calls' = calls + 1
  /\ pc' = "call"
  /\ summary_text' = <<>>
  /\ data_points' = EmptyDataPoints
  /\ result' = EmptyResult
  /\ UNCHANGED <<impl, input, seed, proc, fault, workflow, extractions, others>>

\* the same text is extracted once more in a new process, which draws
\* another hash seed
NewProcess ==
  /\ pc = "returned"
  /\ fault = NoFault
  /\ calls < MaxCalls
  /\ prev' = [result |-> result, seed |-> seed, proc |-> proc]
  /\ calls' = calls + 1
  /\ seed' \in IF impl = "user" THEN ProcessSeeds(impl) \ {seed} ELSE ProcessSeeds(impl)
  /\ proc' = proc + 1
  /\ pc' = "call"
  /\ summary_text' = <<>>
  /\ data_points' = EmptyDataPoints
  /\ result' = EmptyResult
  /\ UNCHANGED <<impl, input, fault, workflow, extractions, others>>

Next ==
  \/ Enforce200
  \/ MatchPatterns
  \/ ScanSections
  \/ Fallback
  \/ \E n \in 0..(Len(ListKeys) - 1) : FallbackFails(n)
  \/ KeywordLoops
  \/ Advanced
  \/ \E n \in 0..(AdvancedStages - 1) : AdvancedFails(n)
  \/ CleanUpLists
  \/ Score
  \/ Fails
  \/ CallAgain
  \/ NewProcess

Spec == Init /\ [][Next]_vars

\* AnalysisRepository.extract_financial_data_points on a report with sections
InitSections ==
  /\ impl = "repo"
  /\ input \in {[str |-> TRUE, text |-> t] : t \in SectionReports}
  /\ seed = 0
  /\ IdleExtraction
  /\ IdleWorkflow
  /\ IdleCreation
  /\ IdleStorage
  /\ NoConcurrent
  /\ NoLimiter

NextSections ==
  \/ Enforce200
  \/ MatchPatterns
  \/ ScanSections
  \/ Fallback
  \/ \E n \in 0..(Len(ListKeys) - 1) : FallbackFails(n)
  \/ Score
  \/ Fails

SpecSections == InitSections /\ [][NextSections]_vars

\* AnalysisRepository.extract_financial_data_points on a report of up to
\* five sections
InitFull ==
  /\ impl = "repo"
  /\ input \in {[str |-> TRUE, text |-> t] : t \in FullReports}
  /\ seed = 0
  /\ IdleExtraction
  /\ IdleWorkflow
  /\ IdleCreation
  /\ IdleStorage
  /\ NoConcurrent
  /\ NoLimiter

SpecFull == InitFull /\ [][NextSections]_vars

\* extract_financial_data_points of either class on a report of lines with
\* keywords
InitKeywords ==
  /\ impl \in {"repo", "user"}
  /\ input \in {[str |-> TRUE, text |-> t] : t \in KeywordReports}
  /\ seed \in ProcessSeeds(impl)
  /\ IdleExtraction
  /\ IdleWorkflow
  /\ IdleCreation
  /\ IdleStorage
  /\ NoConcurrent
  /\ NoLimiter

NextKeywords ==
  \/ Enforce200
  \/ MatchPatterns
  \/ ScanSections
  \/ Fallback
  \/ \E n \in 0..(Len(ListKeys) - 1) : FallbackFails(n)
  \/ KeywordLoops
  \/ Advanced
  \/ \E n \in 0..(AdvancedStages - 1) : AdvancedFails(n)
  \/ CleanUpLists
  \/ Score
  \/ Fails

SpecKeywords == InitKeywords /\ [][NextKeywords]_vars

\* ------------------------------- AnalysisService.analyze_document, by step
\* a confidence that is not clamped
AdjustedUnclamped(base, quality) == base + quality

\* adjusted_confidence = min(confidence_score + quality * 0.1, 1.0), in
\* thousandths; the quality is in hundredths
Adjusted(base, quality) == Min(base + quality, 1000)

\* the record of an analysis with this summary and this extracted data
Record(id, q, summary, extracted_data) ==
  [id |-> id, query |-> q, summary |-> summary, output |-> extracted_data,
   confidence_score |-> Adjusted(confidence, extracted_data.extraction_quality_score)]

\* a record that stores the capped text as its summary
NewRecordCapped(id, q, text) == Record(id, q, Truncate(text), RepoExtract(text))

\* analysis_data of create_analysis_result: output.summary is summary_text
\* as passed in, the other output fields are the extracted data; the
\* confidence is min(confidence_score + 0.1 * quality, 1.0), in thousandths
NewRecord(id, q, text) == Record(id, q, text, RepoExtract(text))

\* a lookup that never finds a stored analysis
StoredNever(q) == {j \in 1..Len(analyses) : FALSE}

\* the stored analyses of the document and user with this query
Stored(q) == {j \in 1..Len(analyses) : analyses[j].query = q}

InitAnalyze ==
  /\ impl = "repo"
  /\ input = [str |-> TRUE, text |-> <<>>]
  /\ seed = 0
  /\ IdleExtraction
  /\ IdleWorkflow
  /\ IdleCreation
  /\ IdleStorage
  /\ NoConcurrent
  /\ NoLimiter

\* the request reaches analyze_document, which sets the status to processing
Request(q) ==
  /\ apc \in {"idle", "done", "failed"}
  /\ served < MaxRequests
  /\ served' = served + 1
  /\ query' = q
  /\ status' = "processing"
  /\ report' = <<>>
  /\ response' = NoResponse
  /\ existing_analysis' = FALSE
  /\ apc' = "processing"
  /\ UNCHANGED <<analyses, analysis_ids, extraction, extractions, others>>

\* run_financial_analysis returns a report
RunAnalysis(r) ==
  /\ apc = "processing"
  /\ report' = r
  /\ apc' = "analysed"
  /\ UNCHANGED <<status, analyses, analysis_ids, query, response, existing_analysis, served, extraction, extractions, others>>

\* run_financial_analysis raises: the status becomes failed, the error is raised again
RunAnalysisFails ==
  /\ apc = "processing"
  /\ status' = "failed"
  /\ apc' = "failed"
  /\ UNCHANGED <<analyses, analysis_ids, query, report, response, existing_analysis, served, extraction, extractions, others>>

\* update_document_status(document_id, "completed", 100, processing_time);
\* update_document_status never raises (it logs and returns False), and the
\* update is taken to reach the database
MarkCompleted ==
  /\ apc = "analysed"
  /\ status' = "completed"
  /\ apc' = "completed"
  /\ UNCHANGED <<analyses, analysis_ids, query, report, response, existing_analysis, served, extraction, extractions, others>>

\* create_analysis_result and the response built from what it returns
CreateAnalysisResult ==
  /\ apc = "completed"
  /\ IF Stored(query) # {}
     THEN /\ response' = analyses[CHOOSE j \in Stored(query) : \A q \in Stored(query) : j <= q]
          /\ existing_analysis' = TRUE
          /\ UNCHANGED <<analyses, analysis_ids, extractions>>
     ELSE /\ extractions' = extractions + 1
          /\ analyses' = Append(analyses, NewRecord(Len(analyses) + 1, query, report))
          /\ analysis_ids' = Append(analysis_ids, Len(analyses) + 1)
          /\ response' = NewRecord(Len(analyses) + 1, query, report)
          /\ existing_analysis' = FALSE
  /\ apc' = "done"
  /\ UNCHANGED <<status, query, report, served, extraction, others>>

\* find_one or insert_one raises: nothing is stored, the error is raised
\* again and analyze_document sets the status to failed; the extraction has
\* run when it was insert_one
CreateFails ==
  /\ apc = "completed"
  /\ extractions' \in IF Stored(query) = {} THEN {extractions, extractions + 1} ELSE {extractions}
  /\ status' = "failed"
  /\ apc' = "failed"
  /\ UNCHANGED <<analyses, analysis_ids, query, report, response, existing_analysis, served, extraction, others>>

\* the update of the document's analysis_ids raises after the insert
LinkFails ==
  /\ apc = "completed"
  /\ Stored(query) = {}
  /\ extractions' = extractions + 1
  /\ analyses' = Append(analyses, NewRecord(Len(analyses) + 1, query, report))
  /\ status' = "failed"
  /\ apc' = "failed"
  /\ UNCHANGED <<analysis_ids, query, report, response, existing_analysis, served, extraction, others>>

NextAnalyze ==
  \/ \E q \in Queries : Request(q)
  \/ \E r \in Reports : RunAnalysis(r)
  \/ RunAnalysisFails
  \/ MarkCompleted
  \/ CreateAnalysisResult
  \/ CreateFails
  \/ LinkFails

SpecAnalyze == InitAnalyze /\ [][NextAnalyze]_vars

\* ----------------------- create_analysis_result of either class, call by call
\* what extract_financial_data_points of the class returns for the text
Extracted(class, text, sd) == IF class = "repo" THEN RepoExtract(text) ELSE UserExtract(text, sd)

\* the steps of create_analysis_result that write: insert_one, the $push on
\* the document, and in UserService the $inc on the user
Writes(class) == IF class = "user" THEN <<"insert", "push", "inc">> ELSE <<"insert", "push">>

\* the summary_text of the calls
Summaries ==
  {<<>>,
   Text(<<Words(<<"Revenue:", "$500M">>)>>),
   Text(<<HeaderLine("opportunities")>> \o Bullets(2))}

\* the base confidence of the calls, in thousandths
Confidences == {0, 950, 1000}

\* a sequence of calls on one document and user, by either class
InitCreate ==
  /\ impl \in {"repo", "user"}
  /\ input = [str |-> TRUE, text |-> <<>>]
  /\ seed \in ProcessSeeds(impl)
  /\ IdleExtraction
  /\ IdleWorkflow
  /\ IdleCreation
  /\ confidence \in Confidences
  /\ IdleCallers
  /\ IdleDeletion
  /\ NoConcurrent
  /\ NoLimiter

\* a call that finds a stored analysis returns it; another call extracts,
\* inserts the record and updates the document (and in UserService the user)
CreateResult(q, text) ==
  /\ served < MaxRequests
  /\ served' = served + 1
  /\ query' = q
  /\ report' = text
  /\ IF Stored(q) # {}
     THEN /\ response' = analyses[CHOOSE j \in Stored(q) : \A k \in Stored(q) : j <= k]
          /\ existing_analysis' = TRUE
          /\ UNCHANGED <<analyses, analysis_ids, analyses_completed_count, extractions>>
     ELSE /\ extractions' = extractions + 1
          /\ analyses' = Append(analyses, Record(Len(analyses) + 1, q, text, Extracted(impl, text, seed)))
          /\ analysis_ids' = Append(analysis_ids, Len(analyses) + 1)
          /\ analyses_completed_count' = analyses_completed_count + (IF impl = "user" THEN 1 ELSE 0)
          /\ response' = Record(Len(analyses) + 1, q, text, Extracted(impl, text, seed))
          /\ existing_analysis' = FALSE
  /\ outcome' = "returned"
  /\ succeeded' = succeeded \cup {q}
  /\ UNCHANGED <<status, apc, extraction, concurrent, limiter, storage>>

\* find_one raises: the handler logs and raises again, nothing was written
FindFails(q, text) ==
  /\ served < MaxRequests
  /\ served' = served + 1
  /\ query' = q
  /\ report' = text
  /\ response' = NoResponse
  /\ existing_analysis' = FALSE
  /\ outcome' = "raised"
  /\ UNCHANGED <<status, apc, analyses, analysis_ids, analyses_completed_count, extractions,
                 succeeded, extraction, concurrent, limiter, storage>>

\* the n-th write raises in a call that found nothing stored: the writes
\* before it stay, the handler logs and raises again
WriteFails(q, text, n) ==
  /\ served < MaxRequests
  /\ Stored(q) = {}
  /\ served' = served + 1
  /\ query' = q
  /\ report' = text
  /\ extractions' = extractions + 1
  /\ analyses' = IF n > 1 THEN Append(analyses, Record(Len(analyses) + 1, q, text, Extracted(impl, text, seed)))
                 ELSE analyses
  /\ analysis_ids' = IF n > 2 THEN Append(analysis_ids, Len(analyses) + 1) ELSE analysis_ids
  /\ response' = NoResponse
  /\ existing_analysis' = FALSE
  /\ outcome' = "raised"
  /\ UNCHANGED <<status, apc, analyses_completed_count, succeeded, extraction, concurrent, limiter, storage>>

NextCreate ==
  \/ \E q \in Queries, text \in Summaries : CreateResult(q, text)
  \/ \E q \in Queries, text \in Summaries : FindFails(q, text)
  \/ \E q \in Queries, text \in Summaries : \E n \in 1..Len(Writes(impl)) : WriteFails(q, text, n)

SpecCreate == InitCreate /\ [][NextCreate]_vars

\* --------------- create_analysis_result, two calls at a time, step by step
\* what the steps of create_analysis_result leave alone
aside == <<status, apc, query, report, response, existing_analysis, served, outcome, succeeded,
           confidence, deletion, extraction, concurrent, limiter>>

\* two calls of the same class for one document and one user
InitRace ==
  /\ impl \in {"repo", "user"}
  /\ input = [str |-> TRUE, text |-> <<>>]
  /\ seed \in ProcessSeeds(impl)
  /\ IdleExtraction
  /\ IdleWorkflow
  /\ IdleCreation
  /\ IdleStorage
  /\ NoConcurrent
  /\ NoLimiter

\* the call is made with this query and this summary_text
Call(t, q, text) ==
  /\ callers[t].at = "idle"
  /\ callers' = [callers EXCEPT ![t] = [at |-> "find", query |-> q, text |-> text, id |-> 0]]
  /\ UNCHANGED <<analyses, analysis_ids, analyses_completed_count, extractions, aside>>

\* existing_analysis = find_one(...): a stored analysis is returned, else
\* the call goes on to extract and insert
FindOne(t) ==
  /\ callers[t].at = "find"
  /\ callers' = [callers EXCEPT ![t].at = IF Stored(callers[t].query) # {} THEN "returned" ELSE "insert"]
  /\ UNCHANGED <<analyses, analysis_ids, analyses_completed_count, extractions, aside>>

\* the extraction, analysis_data and insert_one(analysis_data)
InsertOne(t) ==
  /\ callers[t].at = "insert"
  /\ extractions' = extractions + 1
  /\ analyses' = Append(analyses, Record(Len(analyses) + 1, callers[t].query, callers[t].text,
                                         Extracted(impl, callers[t].text, seed)))
  /\ callers' = [callers EXCEPT ![t].at = "push", ![t].id = Len(analyses) + 1]
  /\ UNCHANGED <<analysis_ids, analyses_completed_count, aside>>

\* update_one on the document: $push of the inserted id
PushId(t) ==
  /\ callers[t].at = "push"
  /\ analysis_ids' = Append(analysis_ids, callers[t].id)
  /\ callers' = [callers EXCEPT ![t].at = IF impl = "user" THEN "inc" ELSE "returned"]
  /\ UNCHANGED <<analyses, analyses_completed_count, extractions, aside>>

\* UserService: update_one on the user, $inc of analyses_completed_count
IncCount(t) ==
  /\ callers[t].at = "inc"
  /\ analyses_completed_count' = analyses_completed_count + 1
  /\ callers' = [callers EXCEPT ![t].at = "returned"]
  /\ UNCHANGED <<analyses, analysis_ids, extractions, aside>>

\* a call of the database raises: the handler logs and raises again
Raises(t) ==
  /\ callers[t].at \in {"find", "insert", "push", "inc"}
  /\ callers' = [callers EXCEPT ![t].at = "raised"]
  /\ UNCHANGED <<analyses, analysis_ids, analyses_completed_count, extractions, aside>>

NextRace ==
  \/ \E t \in Invocations, q \in Queries, text \in Summaries : Call(t, q, text)
  \/ \E t \in Invocations : FindOne(t)
  \/ \E t \in Invocations : InsertOne(t)
  \/ \E t \in Invocations : PushId(t)
  \/ \E t \in Invocations : IncCount(t)
  \/ \E t \in Invocations : Raises(t)

SpecRace == InitRace /\ [][NextRace]_vars

\* ------------------------------ DocumentService.delete_document, by step
\* what the steps of delete_document leave alone
apart == <<status, analysis_ids, apc, query, report, response, existing_analysis, served,
           confidence, callers, extraction, creation, concurrent, limiter>>

\* the analyses stored for the document, n of them
StoredAnalyses(n) == [j \in 1..n |-> Record(j, IF j = 1 THEN "q1" ELSE "q2", <<>>, EmptyResult)]

\* a document that is stored or not, with up to MaxStored analyses and a file
\* that is on disk or not
InitDelete ==
  /\ impl = "repo"
  /\ input = [str |-> TRUE, text |-> <<>>]
  /\ seed = 0
  /\ IdleExtraction
  /\ confidence = BASE_CONFIDENCE
  /\ status = "completed"
  /\ analyses \in {StoredAnalyses(n) : n \in 0..MaxStored}
  /\ analysis_ids = [j \in 1..Len(analyses) |-> j]
  /\ apc = "idle"
  /\ query = "none"
  /\ report = <<>>
  /\ response = NoResponse
  /\ existing_analysis = FALSE
  /\ served = 0
  /\ IdleCreation
  /\ IdleCallers
  /\ documents \in {{}, {"doc"}}
  /\ files \in {{}, {"path"}}
  /\ dpc = "idle"
  /\ reply = NoReply
  /\ NoConcurrent
  /\ NoLimiter

\* document = self.get_document_by_id(document_id); if not document: 404
GetDocument ==
  /\ dpc = "idle"
  /\ reply' = [reply EXCEPT !.documents_before = documents, !.analyses_before = Len(analyses),
                            !.status = IF "doc" \in documents THEN "none" ELSE "404"]
  /\ dpc' = IF "doc" \in documents THEN "check" ELSE "raised"
  /\ UNCHANGED <<analyses, documents, files, apart>>

\* the lookup raises: get_document_by_id logs and returns None, hence 404
GetDocumentFails ==
  /\ dpc = "idle"
  /\ reply' = [reply EXCEPT !.documents_before = documents, !.analyses_before = Len(analyses),
                            !.status = "404"]
  /\ dpc' = "raised"
  /\ UNCHANGED <<analyses, documents, files, apart>>

\* current_user.role != "Admin" and str(document.user_id) != current_user.id: 403
CheckPermission(permitted) ==
  /\ dpc = "check"
  /\ reply' = [reply EXCEPT !.status = IF permitted THEN "none" ELSE "403"]
  /\ dpc' = IF permitted THEN "analyses" ELSE "raised"
  /\ UNCHANGED <<analyses, documents, files, apart>>

\* delete_analyses_by_document_id: delete_many, result.deleted_count
DeleteAnalyses ==
  /\ dpc = "analyses"
  /\ analyses' = <<>>
  /\ reply' = [reply EXCEPT !.deleted_analyses_count = Len(analyses)]
  /\ dpc' = "document"
  /\ UNCHANGED <<documents, files, apart>>

\* delete_many raises: delete_analyses_by_document_id logs and returns 0
DeleteAnalysesFails ==
  /\ dpc = "analyses"
  /\ reply' = [reply EXCEPT !.deleted_analyses_count = 0]
  /\ dpc' = "document"
  /\ UNCHANGED <<analyses, documents, files, apart>>

\* success = delete_document(document_id): delete_one, deleted_count > 0
DeleteDocument ==
  /\ dpc = "document"
  /\ documents' = documents \ {"doc"}
  /\ reply' = [reply EXCEPT !.success = TRUE]
  /\ dpc' = "file"
  /\ UNCHANGED <<analyses, files, apart>>

\* delete_one raises: delete_document logs and returns False, hence 500
DeleteDocumentFails ==
  /\ dpc = "document"
  /\ reply' = [reply EXCEPT !.success = FALSE, !.status = "500"]
  /\ dpc' = "raised"
  /\ UNCHANGED <<analyses, documents, files, apart>>

\* os.remove(document.file_path) when the path exists, and the answer
RemoveFile ==
  /\ dpc = "file"
  /\ files' = files \ {"path"}
  /\ reply' = [reply EXCEPT !.file_deleted = "path" \in files, !.status = "success"]
  /\ dpc' = "returned"
  /\ UNCHANGED <<analyses, documents, apart>>

\* os.remove raises: a warning is logged, the answer is still a success
RemoveFileFails ==
  /\ dpc = "file"
  /\ "path" \in files
  /\ reply' = [reply EXCEPT !.file_deleted = FALSE, !.status = "success"]
  /\ dpc' = "returned"
  /\ UNCHANGED <<analyses, documents, files, apart>>

\* the request is made once more
DeleteAgain ==
  /\ dpc \in {"returned", "raised"}
  /\ reply.call < MaxDeletes
  /\ reply' = [NoReply EXCEPT !.call = reply.call + 1]
  /\ dpc' = "idle"
  /\ UNCHANGED <<analyses, documents, files, apart>>

NextDelete ==
  \/ GetDocument
  \/ GetDocumentFails
  \/ \E permitted \in BOOLEAN : CheckPermission(permitted)
  \/ DeleteAnalyses
  \/ DeleteAnalysesFails
  \/ DeleteDocument
  \/ DeleteDocumentFails
  \/ RemoveFile
  \/ RemoveFileFails
  \/ DeleteAgain

SpecDelete == InitDelete /\ [][NextDelete]_vars

\* ---------------- extract_financial_data_points, two invocations at a time
\* the summary_text of the invocations
ConcurrentTexts ==
  {Text(<<HeaderLine("insights")>> \o Bullets(2)),
   Text(<<HeaderLine("opportunities")>> \o Bullets(2) \o <<Words(<<"Revenue:", "$500M">>)>>),
   Text(<<Words(<<"Sales", "grew", "to", "$600M">>), RiskLine>>),
   Text(<<HeaderLine("risks")>> \o Bullets(1))}

\* the cell that holds the locals of an invocation: its own frame
CellShared(t) == CHOOSE c \in Invocations : \A d \in Invocations : c <= d

Cell(t) == t

\* two invocations of the same class in one process, on different texts
InitConcurrent ==
  /\ impl \in {"repo", "user"}
  /\ input = [str |-> TRUE, text |-> <<>>]
  /\ seed \in ProcessSeeds(impl)
  /\ IdleExtraction
  /\ IdleWorkflow
  /\ IdleCreation
  /\ IdleStorage
  /\ texts \in {f \in [Invocations -> ConcurrentTexts] : \A t, u \in Invocations : t # u => f[t] # f[u]}
  /\ IdleConcurrent
  /\ NoLimiter

\* words = summary_text.split(), the cap, data_points = {...}
EnterCall(t) ==
  /\ tpc[t] = "call"
  /\ frames' = [frames EXCEPT ![Cell(t)] = [NoFrame EXCEPT !.summary_text = Truncate(texts[t])]]
  /\ tpc' = [tpc EXCEPT ![t] = "patterns"]
  /\ UNCHANGED <<texts, returns, extraction, workflow, creation, limiter, storage>>

\* data_points after the loops over the pattern tables of the class
Matched(class, text) == IF class = "repo" THEN RepoMetrics(text) ELSE UserStart(text)

\* the loops over the pattern tables; lines = summary_text.split('\n'),
\* current_section = None
RunPatterns(t) ==
  /\ tpc[t] = "patterns"
  /\ frames' = [frames EXCEPT ![Cell(t)] =
                  [@ EXCEPT !.data_points = Matched(impl, frames[Cell(t)].summary_text),
                            !.lines = SplitLines(frames[Cell(t)].summary_text),
                            !.current_section = "none",
                            !.i = 1]]
  /\ tpc' = [tpc EXCEPT ![t] = "lines"]
  /\ UNCHANGED <<texts, returns, extraction, workflow, creation, limiter, storage>>

\* what one iteration of the loop of the section-aware pass leaves in the frame
Scanned(f, st) == [f EXCEPT !.data_points = st.dp, !.current_section = st.cur, !.i = f.i + 1]

\* the state of the loop that the frame holds
LoopState(f) == [cur |-> f.current_section, dp |-> f.data_points]

\* AnalysisRepository: one iteration of "for line in lines"
NextLine(t) ==
  /\ tpc[t] = "lines"
  /\ impl = "repo"
  /\ frames[Cell(t)].i \in 1..Len(frames[Cell(t)].lines)
  /\ frames' = [frames EXCEPT ![Cell(t)] =
                  Scanned(@, ScanLine(LoopState(@), @.lines[@.i]))]
  /\ UNCHANGED <<texts, tpc, returns, extraction, workflow, creation, limiter, storage>>

\* AnalysisRepository: after the loop, the fallback pass when no list has an entry
RunFallback(t) ==
  /\ tpc[t] = "lines"
  /\ impl = "repo"
  /\ frames[Cell(t)].i \notin 1..Len(frames[Cell(t)].lines)
  /\ frames' = [frames EXCEPT ![Cell(t)] =
                  [@ EXCEPT !.data_points = RepoFallback(frames[Cell(t)].summary_text, @)]]
  /\ tpc' = [tpc EXCEPT ![t] = "score"]
  /\ UNCHANGED <<texts, returns, extraction, workflow, creation, limiter, storage>>

\* UserService: the three loops over the lines
RunKeywordLoops(t) ==
  /\ tpc[t] = "lines"
  /\ impl = "user"
  /\ frames' = [frames EXCEPT ![Cell(t)] =
                  [@ EXCEPT !.data_points = KeywordPass(frames[Cell(t)].summary_text, @)]]
  /\ tpc' = [tpc EXCEPT ![t] = "advanced"]
  /\ UNCHANGED <<texts, returns, extraction, workflow, creation, limiter, storage>>

\* UserService: the advanced pass, when fewer than 5 metrics were found
RunAdvanced(t) ==
  /\ tpc[t] = "advanced"
  /\ frames' = [frames EXCEPT ![Cell(t)] =
                  [@ EXCEPT !.data_points = UserAdvanced(frames[Cell(t)].summary_text, @)]]
  /\ tpc' = [tpc EXCEPT ![t] = "cleanup"]
  /\ UNCHANGED <<texts, returns, extraction, workflow, creation, limiter, storage>>

\* UserService: clean up and deduplicate
RunCleanUp(t) ==
  /\ tpc[t] = "cleanup"
  /\ frames' = [frames EXCEPT ![Cell(t)] = [@ EXCEPT !.data_points = CleanUp(@, seed)]]
  /\ tpc' = [tpc EXCEPT ![t] = "score"]
  /\ UNCHANGED <<texts, returns, extraction, workflow, creation, limiter, storage>>

\* the quality score and return data_points
ReturnScored(t) ==
  /\ tpc[t] = "score"
  /\ returns' = [returns EXCEPT ![t] = IF impl = "repo" THEN RepoScored(frames[Cell(t)].data_points)
                                        ELSE UserScored(frames[Cell(t)].data_points)]
  /\ tpc' = [tpc EXCEPT ![t] = "returned"]
  /\ UNCHANGED <<texts, frames, extraction, workflow, creation, limiter, storage>>

NextConcurrent ==
  \/ \E t \in Invocations : EnterCall(t)
  \/ \E t \in Invocations : RunPatterns(t)
  \/ \E t \in Invocations : NextLine(t)
  \/ \E t \in Invocations : RunFallback(t)
  \/ \E t \in Invocations : RunKeywordLoops(t)
  \/ \E t \in Invocations : RunAdvanced(t)
  \/ \E t \in Invocations : RunCleanUp(t)
  \/ \E t \in Invocations : ReturnScored(t)

SpecConcurrent == InitConcurrent /\ [][NextConcurrent]_vars

\* ------------------------------------------------- RateLimiter.is_allowed
\* limit and window of the calls, scaled down from RATE_LIMITS
Limits == {1, 2}
Windows == {1, 2}

\* calls for one identifier and endpoint with a fixed limit and window,
\* Redis being available
InitRate ==
  /\ impl = "repo"
  /\ input = [str |-> TRUE, text |-> <<>>]
  /\ seed = 0
  /\ IdleExtraction
  /\ IdleWorkflow
  /\ IdleCreation
  /\ IdleStorage
  /\ NoConcurrent
  /\ limit \in Limits
  /\ window \in Windows
  /\ IdleLimiter

\* zremrangebyscore(key, 0, window_start)
Recent(members, window_start) == {m \in members : m > window_start}

\* the smallest score of the set: zrange(key, 0, 0, withscores=True)
Oldest(members) == CHOOSE m \in members : \A n \in members : m <= n

\* zadd(key, {str(current_time): current_time}): the member is the second
ZAdd(members, current_time) == members \cup {current_time}

\* the answer of a call that found current_requests >= limit
Denied(members, current_time) ==
  [allowed |-> FALSE, remaining |-> 0,
   reset_time |-> IF members # {} THEN Oldest(members) + window ELSE current_time + window,
   retry_after |-> (IF members # {} THEN Oldest(members) + window ELSE current_time + window)
                   - current_time]

\* the answer of a call that found current_requests < limit
Allowed(current_requests, current_time) ==
  [allowed |-> TRUE, remaining |-> limit - current_requests - 1,
   reset_time |-> current_time + window, retry_after |-> 0]

\* one call of is_allowed at the second now
IsAllowed ==
  /\ attempts < MaxAttempts
  /\ attempts' = attempts + 1
  /\ IF Cardinality(Recent(zset, now - window)) >= limit
     THEN /\ zset' = Recent(zset, now - window)
          /\ answer' = Denied(Recent(zset, now - window), now)
          /\ UNCHANGED <<expires, allowed_at>>
     ELSE /\ zset' = ZAdd(Recent(zset, now - window), now)
          /\ expires' = now + window
          /\ answer' = Allowed(Cardinality(Recent(zset, now - window)), now)
          /\ allowed_at' = [allowed_at EXCEPT ![now] = @ + 1]
  /\ UNCHANGED <<limit, window, now, extraction, workflow, creation, concurrent, storage>>

\* a second passes; the key is deleted when its time to live is over
Tick ==
  /\ now < MaxTime
  /\ now' = now + 1
  /\ zset' = IF zset # {} /\ now + 1 >= expires THEN {} ELSE zset
  /\ UNCHANGED <<limit, window, expires, attempts, allowed_at, answer,
                 extraction, workflow, creation, concurrent, storage>>

NextRate ==
  \/ IsAllowed
  \/ Tick

SpecRate == InitRate /\ [][NextRate]_vars

\* ------------------------------------------------------------- properties
\* the call has returned to its caller
Returned == pc = "returned"

\* the call has returned and no exception was raised on its way
Clean == pc = "returned" /\ fault = NoFault

EmptyString == [str |-> TRUE, text |-> <<>>]

\* C1: extract_financial_data_points of either class never propagates an
\* exception: whatever the input (a non-string included) and wherever a step
\* fails, the call returns a result record with the seven fields.
C1_NeverPropagates ==
  /\ fault.by # "propagated"
  /\ Returned => DOMAIN result = DOMAIN EmptyResult

\* a call on an argument that is no string has returned through the handler
C1_Witness == Returned /\ ~input.str /\ fault = [at |-> "split", by |-> "outer"]

C3_ScoreBounds ==
  /\ Returned => result.extraction_quality_score \in 0..100
  /\ input = EmptyString =>
       /\ fault.at # "split"
       /\ Returned => result.extraction_quality_score = 0

\* the empty string went through every step and came back all empty
C3_Witness == Clean /\ input = EmptyString /\ result = EmptyResult

\* C4: each of the five returned lists has at most 5 entries and each entry
\* at most 150 characters, in both classes and whichever pass filled it.
C4_ListCaps ==
  Returned =>
    \A q \in 1..Len(ListKeys) :
      /\ Len(result[ListKeys[q]]) <= MAX_ITEMS
      /\ \A j \in 1..Len(result[ListKeys[q]]) : result[ListKeys[q]][j].len <= ENTRY_CHARS

\* a list that is full and whose first entry was cut to 150 characters
C4_Witness ==
  Clean /\ \E q \in 1..Len(ListKeys) :
             /\ Len(result[ListKeys[q]]) = MAX_ITEMS
             /\ result[ListKeys[q]][1].len = ENTRY_CHARS

\* the entries of a list, as a set
Entries(list) == {list[j] : j \in 1..Len(list)}

\* C6 as stated: two runs on the same text return identical results, in the
\* same process or in different ones, in either class.
C6_IdenticalRuns == calls > 1 /\ Clean => result = prev.result

\* C6 as the code has it: two runs return identical results in
\* AnalysisRepository, and in UserService when both run under the same hash
\* seed (the same process); under different seeds UserService still returns
\* the same metrics, the same score and lists of the same lengths, and a list
\* that is not full holds the same entries, in an order that may differ.
C6_IdenticalUpToSetOrder ==
  calls > 1 /\ Clean =>
    /\ impl = "repo" \/ seed = prev.seed => result = prev.result
    /\ result.metrics = prev.result.metrics
    /\ result.extraction_quality_score = prev.result.extraction_quality_score
    /\ \A q \in 1..Len(ListKeys) :
         /\ Len(result[ListKeys[q]]) = Len(prev.result[ListKeys[q]])
         /\ Len(result[ListKeys[q]]) < MAX_ITEMS =>
              Entries(result[ListKeys[q]]) = Entries(prev.result[ListKeys[q]])

\* UserService ran twice on one text in two processes and returned two
\* different records
C6_Witness ==
  calls > 1 /\ Clean /\ impl = "user" /\ proc # prev.proc /\ result # prev.result

\* the value C7 states for a metric: the capture of the first match of the
\* first variant that matches anywhere in the text, "" when none matches
VariantsMatching(ts, variants) ==
  {v \in 1..Len(variants) : \E a \in 1..Len(ts) : MatchAt(ts, a, variants[v]) > 0}
FirstOccurrence(ts, pat) ==
  Capture(ts, MatchAt(ts, Least({a \in 1..Len(ts) : MatchAt(ts, a, pat) > 0}), pat), pat.value)
StatedOf(ts, variants, matching) ==
  IF matching = {} THEN "" ELSE FirstOccurrence(ts, variants[Least(matching)])
Stated(ts, variants) == StatedOf(ts, variants, VariantsMatching(ts, variants))

\* the pattern tables of the class of the call
Patterns ==
  IF impl = "repo" THEN financial_patterns ELSE Merge(user_financial_patterns, percentage_patterns)

\* the metric has the stated value, and is absent when the value is ""
MetricIs(metrics, n, value) ==
  IF value = "" THEN n \notin DOMAIN metrics ELSE n \in DOMAIN metrics /\ metrics[n] = value

\* the metric has the stated value; when the value is "" it is absent, or it
\* is one of the metrics the advanced pass of UserService assigns
MetricIsUnlessAdvanced(metrics, n, value) ==
  IF value = ""
  THEN n \in DOMAIN metrics => impl = "user" /\ n \in {"revenue", "net_income", "cash", "growth_rate"}
  ELSE n \in DOMAIN metrics /\ metrics[n] = value

RevenueExample ==
  Text(<<Words(<<"Revenue:", "$500M">>), Words(<<"Sales", "grew", "to", "$600M">>)>>)

C8_FirstFiveBullets ==
  Clean /\ impl = "repo" =>
    \A key \in HeaderKeys : \A b \in BulletBodies : \A t \in Tails :
      input.text = Text(<<HeaderLine(key)>> \o b \o t) =>
        result[key] = [j \in 1..Min(Len(b), MAX_ITEMS) |-> Entry(Tail(b[j]), ENTRY_CHARS)]

\* the header forms of either pass
HeaderPhrases ==
  UNION {{SectionHeader[ListKeys[q]]} \cup Entries(FallbackHeaders[ListKeys[q]]) : q \in 1..Len(ListKeys)}
NoHeader(ts) == \A h \in HeaderPhrases : ~Contains(ts, h)
NoDigit(ts) == \A j \in 1..Len(ts) : ts[j].s \notin DigitWords

\* C9: in AnalysisRepository a text without a digit and without a section
\* header gives no metrics, five empty lists and the score 0.
C9_NothingWithoutDigitOrHeader ==
  Clean /\ impl = "repo" /\ NoDigit(input.text) /\ NoHeader(input.text) => result = EmptyResult

\* the text ends with "... [truncated to 200 words]"
EndsWithMarker(ts) ==
  Len(ts) >= Len(TruncationMarker)
  /\ SubSeq(ts, Len(ts) - Len(TruncationMarker) + 1, Len(ts)) = TruncationMarker

\* at most 200 words, the marker not counted
WithinCap(ts) ==
  \/ WordCount(split(ts)) <= WORD_LIMIT
  \/ /\ EndsWithMarker(ts)
     /\ WordCount(split(SubSeq(ts, 1, Len(ts) - Len(TruncationMarker)))) <= WORD_LIMIT

\* C5: the summary stored by create_analysis_result never exceeds 200 words,
\* and ends with the marker when the report has more than 200 words.
C5_SummaryWithinCap ==
  /\ \A j \in 1..Len(analyses) : WithinCap(analyses[j].summary)
  /\ apc = "done" /\ ~existing_analysis /\ WordCount(split(report)) > WORD_LIMIT =>
       EndsWithMarker(response.summary)

\* nothing can be extracted from the report
Unextractable(r) == RepoExtract(r) = EmptyResult

\* an analysis of the query is stored with the report as its summary and an
\* empty structure
StoredAsIs(q, r) ==
  \E j \in 1..Len(analyses) :
    analyses[j].query = q /\ analyses[j].summary = r /\ analyses[j].output = EmptyResult

Literal(ts, b) ==
  IF ts[b].s = "5" /\ b < Len(ts) /\ ts[b + 1].s = "million" THEN "5 million" ELSE ts[b].s
Figures(ts) == {Literal(ts, b) : b \in 1..Len(ts)}

\* C11: every value stored in metrics is a figure of the text as written,
\* with its currency symbol, its scale suffix or scale word and its percent
\* sign.
C11_LiteralFigures ==
  Clean => \A n \in DOMAIN result.metrics : result.metrics[n] \in Figures(summary_text)

\* the metric names of the specification
Vocabulary ==
  {"revenue", "operating_income", "net_income", "cash", "free_cash_flow", "operating_margin",
   "net_margin", "revenue_change", "income_change", "growth_rate"}

\* C12 as stated: every key of the returned metrics is a name of the fixed
\* vocabulary, in both classes and with the advanced pass.
C12_FixedVocabulary == Returned => DOMAIN result.metrics \subseteq Vocabulary

\* C12 as the code has it: the keys of AnalysisRepository are among its four
\* pattern names; the keys of UserService are among the ten names of the
\* vocabulary and the two more the advanced pass assigns, debt and
\* gross_margin.
C12_VocabularyWithAdvanced ==
  Returned =>
    /\ impl = "repo" => DOMAIN result.metrics \subseteq DOMAIN financial_patterns
    /\ impl = "user" => DOMAIN result.metrics \subseteq Vocabulary \cup {"debt", "gross_margin"}

\* the advanced pass of UserService has assigned the metric debt
C12_Witness == Clean /\ impl = "user" /\ "debt" \in DOMAIN result.metrics

\* C13: once a call of create_analysis_result for a query has returned,
\* every later call for that query, in either class, writes nothing: the
\* extraction does not run, no record is inserted, the stored record, the
\* analysis_ids of the document and the analyses_completed_count of the user
\* stay as they are; and when the call returns, it returns the stored record.
C13_LaterCallsNoOp ==
  [][served' = served + 1 /\ query' \in succeeded =>
       /\ UNCHANGED <<analyses, analysis_ids, analyses_completed_count, extractions>>
       /\ outcome' = "returned" =>
            /\ existing_analysis'
            /\ Stored(query') # {}
            /\ \A j \in Stored(query') : response' = analyses[j]]_vars

\* a second call of UserService for the query of the first returned the stored
\* record, which has metrics; one extraction has run and the count is 1
C13_Witness ==
  /\ impl = "user"
  /\ served = 2
  /\ outcome = "returned"
  /\ existing_analysis
  /\ response.query = query
  /\ response.output.metrics # <<>>
  /\ extractions = 1
  /\ analyses_completed_count = 1
  /\ Len(analyses) = 1

\* C14: invocations of extract_financial_data_points that run at the same
\* time on different texts do not interfere: whatever the interleaving of
\* their steps, each returns what a call on its text alone returns.
C14_NoInterference ==
  \A t \in Invocations :
    tpc[t] = "returned" => returns[t] = Extracted(impl, texts[t], seed)

\* the first invocation has returned its insights while the second is inside
\* its loop over the lines, in another section and with entries of its own
C14_Witness ==
  /\ tpc[1] = "returned"
  /\ returns[1].insights # <<>>
  /\ tpc[2] = "lines"
  /\ frames[Cell(2)].current_section = "opportunities"
  /\ frames[Cell(2)].data_points.opportunities # <<>>

\* the calls answered allowed=True with a timestamp in a..b
RECURSIVE AllowedIn(_, _)
AllowedIn(a, b) == IF a > b THEN 0 ELSE allowed_at[b] + AllowedIn(a, b - 1)

\* C15: in every interval of window seconds, at most limit calls were
\* answered allowed=True, also when several calls arrive in the same second.
C15_AtMostLimitPerWindow ==
  \A a \in 0..MaxTime : AllowedIn(a, Min(a + window - 1, MaxTime)) <= limit

\* what the section-aware pass leaves for the text
SectionFindings(text) == SectionPass(text, RepoMetrics(text))

\* the lists of the two records are the same
SameLists(a, b) == \A q \in 1..Len(ListKeys) : a[ListKeys[q]] = b[ListKeys[q]]

\* C16: the fallback pass of the repository runs exactly when the
\* section-aware pass left the five lists empty: a call that found something
\* in the section-aware pass returns the lists of that pass, and a call that
\* found nothing returns the lists the fallback pass makes of the text.
C16_FallbackIffEmpty ==
  Clean =>
    \A found \in {SectionFindings(summary_text)} :
      IF NoFindings(found)
      THEN \A fallen \in {extract_insights_fallback(summary_text, found, Len(ListKeys))} :
             SameLists(result, fallen)
      ELSE SameLists(result, found)

\* the section-aware pass found an entry, the call returned it, and the
\* fallback pass would have added to the lists
C16_Witness ==
  /\ Clean
  /\ \E found \in {SectionFindings(summary_text)} :
       /\ ~NoFindings(found)
       /\ \E fallen \in {extract_insights_fallback(summary_text, found, Len(ListKeys))} :
            ~SameLists(result, fallen)

\* the lines of the text that hold a section header of the section-aware pass
HeaderLines(ls) == {k \in 1..Len(ls) : HeaderOf(ls[k]) # "none"}

\* the section named by the nearest header line before line j
NearestHeader(ls, j) ==
  IF \E k \in HeaderLines(ls) : k < j
  THEN HeaderOf(ls[CHOOSE k \in HeaderLines(ls) : k < j /\ \A h \in HeaderLines(ls) : h < j => h <= k])
  ELSE "none"

\* the entry is the content of a bullet line of ls that holds no header and
\* whose nearest header line before it names the section
FromBulletOf(ls, entry, section) ==
  \E j \in 1..Len(ls) :
    /\ HeaderOf(ls[j]) = "none"
    /\ IsBullet(ls[j])
    /\ entry = Entry(Tail(ls[j]), ENTRY_CHARS)
    /\ NearestHeader(ls, j) = section

\* the entries of the five lists
AllEntries(dp) == UNION {Entries(dp[ListKeys[q]]) : q \in 1..Len(ListKeys)}

\* C17: after the section-aware pass, no line that holds a section header
\* has become an entry, a bullet line included, and every entry of a list is
\* the content of a bullet line whose nearest header line before it names
\* that list.
C17_SectionOfNearestHeader ==
  pc = "fallback" =>
    /\ \A j \in HeaderLines(SplitLines(summary_text)) :
         SplitLines(summary_text)[j] # <<>> =>
           Entry(Tail(SplitLines(summary_text)[j]), ENTRY_CHARS) \notin AllEntries(data_points)
    /\ \A q \in 1..Len(ListKeys) : \A e \in 1..Len(data_points[ListKeys[q]]) :
         FromBulletOf(SplitLines(summary_text), data_points[ListKeys[q]][e], ListKeys[q])

\* a bullet line that holds "Risk Factors:" follows the insights header: it
\* is no entry, and the bullet after it went to the risks
C17_Witness ==
  /\ pc = "fallback"
  /\ HeaderOf(SplitLines(summary_text)[1]) = "insights"
  /\ \E j \in HeaderLines(SplitLines(summary_text)) : j > 1 /\ IsBullet(SplitLines(summary_text)[j])
  /\ data_points.risks # <<>>
  /\ data_points.insights = <<>>

\* the line holds a section header in its long or in its short form
AnyHeader(line) ==
  \E q \in 1..Len(ListKeys) : \E h \in 1..Len(FallbackHeaders[ListKeys[q]]) :
    Contains(line, FallbackHeaders[ListKeys[q]][h])

\* line j follows a line that leaves the section, with no header line between
AfterClear(ls, j) ==
  \E c \in 1..(j - 1) : IsClear(ls[c]) /\ \A k \in (c + 1)..(j - 1) : ~AnyHeader(ls[k])

\* C18: a bullet line that follows a line starting with "INVESTMENT
\* RECOMMENDATION", "KEY FINANCIAL METRICS" or "GROWTH & CHANGES", with no
\* header line between the two, is in none of the five returned lists.
C18_NothingAfterClearLine ==
  Clean =>
    \A j \in 1..Len(SplitLines(summary_text)) :
      /\ IsBullet(SplitLines(summary_text)[j])
      /\ ~AnyHeader(SplitLines(summary_text)[j])
      /\ AfterClear(SplitLines(summary_text), j)
      => Entry(Tail(SplitLines(summary_text)[j]), ENTRY_CHARS) \notin AllEntries(result)

\* what follows the first colon of the line
AfterColon(line) ==
  SubSeq(line,
         (CHOOSE c \in 1..Len(line) :
            line[c].s \in ColonWords /\ \A q \in 1..(c - 1) : line[q].s \notin ColonWords) + 1,
         Len(line))

\* the lines the two passes look at: the lines of the text, and the lines of
\* what follows a header of the fallback pass
CandidateLines(text) ==
  Entries(SplitLines(text))
  \cup UNION {Entries(SplitLines(SubSeq(text, at + 1, Len(text)))) : at \in {j \in 1..Len(text) : text[j].s \in ColonWords}}

\* the entry is what a candidate line gives without its marker: a bullet of
\* more than 15 characters without its "-", or a numbered item without its
\* "Risk n:", the content being longer than 10 characters
FromCandidate(ls, entry) ==
  \E line \in ls :
    \/ /\ IsBullet(line)
       /\ LineChars(line) > BULLET_LINE_CHARS
       /\ LineChars(Tail(line)) > CONTENT_CHARS
       /\ entry = Entry(Tail(line), ENTRY_CHARS)
    \/ /\ line # <<>>
       /\ line[1].s \in {"Risk", "Opportunity"}
       /\ \E c \in 1..Len(line) : line[c].s \in ColonWords
       /\ LineChars(AfterColon(line)) > CONTENT_CHARS
       /\ entry = Entry(AfterColon(line), ENTRY_CHARS)

\* the entry is the content of a bullet line of 15 characters or fewer
FromShortBullet(ls, entry) ==
  \E line \in ls :
    /\ IsBullet(line)
    /\ LineChars(line) <= BULLET_LINE_CHARS
    /\ entry = Entry(Tail(line), ENTRY_CHARS)

\* C19: every entry of the lists the repository returns is the content,
\* without its marker, of a candidate with more than 10 characters of
\* content: no entry has 10 characters or fewer, and a bullet line of 15
\* characters or fewer gives no entry.
C19_OnlyLongCandidates ==
  Returned =>
    \A e \in AllEntries(result) :
      /\ e.len > CONTENT_CHARS
      /\ FromCandidate(CandidateLines(summary_text), e)
      /\ ~FromShortBullet(CandidateLines(summary_text), e)

\* under "Risk Factors:" a bullet line of 14 characters, whose content has 12,
\* gave no entry, and a longer line of the section gave one
C19_Witness ==
  /\ Clean
  /\ result.risks # <<>>
  /\ \E j \in 1..Len(SplitLines(summary_text)) :
       /\ IsBullet(SplitLines(summary_text)[j])
       /\ LineChars(SplitLines(summary_text)[j]) <= BULLET_LINE_CHARS
       /\ LineChars(Tail(SplitLines(summary_text)[j])) > CONTENT_CHARS
       /\ NearestHeader(SplitLines(summary_text), j) = "risks"

\* the headers of the fallback pass, long and short forms of every section
AllHeaders == UNION {Entries(FallbackHeaders[ListKeys[q]]) : q \in 1..Len(ListKeys)}

\* where the first of these headers at or after position from begins; the
\* end of the text when there is none
NextHeaderAt(text, from) ==
  IF \E j \in from..Len(text) : \E p \in AllHeaders : PhraseAt(text, j, p)
  THEN CHOOSE j \in from..Len(text) :
         /\ \E p \in AllHeaders : PhraseAt(text, j, p)
         /\ \A k \in from..(j - 1) : \A p \in AllHeaders : ~PhraseAt(text, k, p)
  ELSE Len(text) + 1

\* the entry comes from a line between a header of the section and the next
\* header of any section
InSpanOf(text, section, entry) ==
  \E h \in 1..Len(text) : \E p \in Entries(FallbackHeaders[section]) :
    /\ PhraseAt(text, h, p)
    /\ FromCandidate(Entries(SplitLines(SubSeq(text, h + Len(p), NextHeaderAt(text, h + Len(p)) - 1))),
                     entry)

\* C20: when the fallback pass has run, every entry of a list comes from the
\* span between a header of that section and the next header the pass knows,
\* in the long or in the short form, or the end of the text.
C20_WithinOwnSpan ==
  pc = "score" /\ fault = NoFault =>
    \A found \in {SectionFindings(summary_text)} :
      NoFindings(found) =>
        \A q \in 1..Len(ListKeys) : \A e \in Entries(data_points[ListKeys[q]]) :
          InSpanOf(summary_text, ListKeys[q], e)

\* no entry occurs twice in the list
NoDuplicates(list) == \A j, k \in 1..Len(list) : j # k => list[j] # list[k]

\* C21: no list returned by extract_financial_data_points holds an entry
\* twice, whichever pass filled it.
C21_NoDuplicateEntries ==
  Returned => \A q \in 1..Len(ListKeys) : NoDuplicates(result[ListKeys[q]])

\* number of the five lists of the result that hold an entry
FilledLists == Cardinality({q \in 1..Len(ListKeys) : result[ListKeys[q]] # <<>>})

\* C22: the score of the repository, in hundredths, is 20 for metrics, 15
\* for each list that holds an entry and 5 more when all five lists do, at
\* most 100; it is 100 only with metrics and all five lists, and the 5 are
\* granted without metrics too.
C22_RepoScoreFormula ==
  (Returned /\ impl = "repo" /\ fault = NoFault) =>
    /\ result.extraction_quality_score =
         Min((IF result.metrics # <<>> THEN 20 ELSE 0) + 15 * FilledLists
             + (IF FilledLists = Len(ListKeys) THEN 5 ELSE 0), 100)
    /\ result.extraction_quality_score = 100 <=>
         (result.metrics # <<>> /\ FilledLists = Len(ListKeys))
    /\ (result.metrics = <<>> /\ FilledLists = Len(ListKeys)) =>
         result.extraction_quality_score = 80

C22_Witness ==
  /\ Returned /\ impl = "repo" /\ fault = NoFault
  /\ result.metrics = <<>>
  /\ FilledLists = Len(ListKeys)
  /\ result.extraction_quality_score = 80

C22_WitnessComplete ==
  /\ Returned /\ impl = "repo" /\ fault = NoFault
  /\ result.metrics # <<>>
  /\ FilledLists = Len(ListKeys)
  /\ result.extraction_quality_score = 100
\* C23: the confidence_score of every record create_analysis_result stored
\* is min(base + 0.1 * extraction_quality_score, 1.0), in thousandths: it is
\* not below the base, not above 1000 and at most 100 above the base.
C23_AdjustedConfidence ==
  \A j \in 1..Len(analyses) :
    /\ analyses[j].confidence_score =
         Min(confidence + analyses[j].output.extraction_quality_score, 1000)
    /\ analyses[j].confidence_score >= confidence
    /\ analyses[j].confidence_score <= 1000
    /\ analyses[j].confidence_score - confidence <= 100

\* a stored record whose confidence was raised and clamped
C23_Witness ==
  \E j \in 1..Len(analyses) :
    /\ analyses[j].output.extraction_quality_score > 0
    /\ confidence + analyses[j].output.extraction_quality_score > 1000
    /\ confidence < 1000
    /\ analyses[j].confidence_score = 1000
\* the lines of the text that hold a keyword of the list
LinesWith(text, kws) == {line \in Entries(SplitLines(text)) : HasKey(line, kws)}

\* C24: in UserService no line that holds a risk keyword is placed in the
\* opportunities list, whatever the size of the risks list.
C24_RiskLineNeverOpportunity ==
  (Returned /\ impl = "user" /\ fault = NoFault) =>
    \A line \in LinesWith(summary_text, risk_keywords) :
      Entry(line, 120) \notin Entries(result.opportunities)
\* the line holds a finance keyword, a digit and a currency or percent sign
FinanceLine(line) ==
  /\ HasKey(line, financial_keywords \cup AdvancedWords)
  /\ HasDigit(line)
  /\ (HasDollar(line) \/ HasPercent(line))

\* C25: in UserService every entry of financial_highlights comes from a
\* line of the text that holds a finance keyword, a digit and a currency or
\* percent sign, also when the advanced pass has run.
C25_HighlightsFromFinanceLines ==
  (Returned /\ impl = "user" /\ fault = NoFault) =>
    \A e \in Entries(result.financial_highlights) :
      \E line \in Entries(SplitLines(summary_text)) :
        /\ e \in {Entry(line, 120), Entry(line, 150)}
        /\ FinanceLine(line)
\* no call of create_analysis_result is under way
NoCallUnderWay == \A t \in Invocations : callers[t].at \in {"idle", "returned", "raised"}

\* the ids of analysis_ids whose analysis has this query
Linked(q) == {j \in 1..Len(analysis_ids) : analyses[analysis_ids[j]].query = q}

\* C26: after concurrent calls of create_analysis_result for one document,
\* user and query, at most one analysis of that query is stored and the
\* analysis_ids of the document hold at most one id for it.
C26_AtMostOnePerQuery ==
  NoCallUnderWay =>
    \A q \in Queries : Cardinality(Stored(q)) <= 1 /\ Cardinality(Linked(q)) <= 1
\* C27: in analyze_document the status of the document is completed only
\* when an analysis of the document is stored, and a status that is
\* completed is not set to failed by a later step of the same run.
C27_CompletedMeansStored ==
  /\ [](status = "completed" => analyses # <<>>)
  /\ [][~(status = "completed" /\ status' = "failed")]_vars
\* the text up to its n-th word, with its line ends: what a cap that keeps
\* the line structure retains
CutKeepingLines(ts, n) ==
  LET words(j) == IF ts[j] = NL THEN 0 ELSE ts[j].k
      before(j) == SumTo([q \in 1..Len(ts) |-> words(q) + 1], j - 1) - (j - 1)
      kept == {j \in 1..Len(ts) : before(j) < n}
  IN [j \in 1..Cardinality(kept) |->
        IF ts[j] = NL THEN NL ELSE [ts[j] EXCEPT !.k = Min(@, n - before(j))]]

\* C28: for a report of more than 200 words, the section-aware pass of
\* the repository finds in the capped text what it finds in the first 200
\* words of the report with their line ends kept.
C28_CapKeepsLines ==
  (/\ impl = "repo" /\ pc = "fallback" /\ input.str
   /\ WordCount(split(input.text)) > WORD_LIMIT) =>
    SameLists(data_points,
              SectionPass(CutKeepingLines(input.text, WORD_LIMIT) \o TruncationMarker,
                          EmptyDataPoints))
\* the result holds no metrics and no entry in the lists of these keys
EmptyIn(keys) == result.metrics = <<>> /\ \A key \in keys : result[key] = <<>>

\* C29 as stated: in both classes the score is 0 exactly when the metrics
\* and all five lists are empty.
C29_ZeroIffEmpty ==
  Returned => (result.extraction_quality_score = 0 <=> EmptyIn(Entries(ListKeys)))

\* C29: the score of the repository is 0 exactly when the metrics and all
\* five lists are empty; the score of UserService is 0 exactly when the
\* metrics and the lists other than key_findings are empty, its
\* key_findings are not counted.
C29_ZeroIffNothingCounted ==
  Returned =>
    (result.extraction_quality_score = 0 <=>
       EmptyIn(IF impl = "repo" THEN Entries(ListKeys) ELSE Entries(ListKeys) \ {"key_findings"}))

\* UserService returns key findings and nothing else, with a score of 0
C29_Witness ==
  /\ Returned /\ impl = "user" /\ fault = NoFault
  /\ result.key_findings # <<>>
  /\ EmptyIn(Entries(ListKeys) \ {"key_findings"})
  /\ result.extraction_quality_score = 0

\* the repository returns key findings and nothing else, with a score above 0
C29_WitnessRepo ==
  /\ Returned /\ impl = "repo" /\ fault = NoFault
  /\ result.key_findings # <<>>
  /\ EmptyIn(Entries(ListKeys) \ {"key_findings"})
  /\ result.extraction_quality_score > 0
\* C30: a call of delete_document that ends with an error has removed
\* neither the document nor an analysis of it, and a call that succeeds
\* has removed both.
C30_DeleteAllOrNothing ==
  /\ dpc = "raised" =>
       documents = reply.documents_before /\ Len(analyses) = reply.analyses_before
  /\ dpc = "returned" => documents = {} /\ analyses = <<>>
====
